---------------------------- MODULE Spec2Model ----------------------------
(***************************************************************************)
(* A model of the pcap-file library: the PCAP-NG stream state, the block   *)
(* framing codec, the pull parser, the refill reader, the writer, and the  *)
(* classic PCAP record codec.                                              *)
(*                                                                         *)
(* Bytes are naturals in 0..255 and byte strings are sequences of bytes.   *)
(* 64-bit and wider quantities (raw ticks, nanosecond counts, Durations)   *)
(* do not fit the checker's machine integers; they are little-endian       *)
(* base-256 limb sequences without leading zero limbs ("N" values), so     *)
(* that the 64-bit wrap-around of the code is exactly "keep 8 limbs".      *)
(***************************************************************************)
EXTENDS Integers, Sequences, FiniteSets, TLC

\* ------------------------------------------------------------------------
\* Wide naturals
\* ------------------------------------------------------------------------

\* F applied to the value of v, v being evaluated once
With(v, F(_)) == CHOOSE y \in {F(x) : x \in {v}} : TRUE

RECURSIVE Pow(_, _)
Pow(b, e) == IF e = 0 THEN 1 ELSE b * Pow(b, e - 1)

RECURSIVE Reverse(_)
Reverse(s) == IF s = <<>> THEN <<>> ELSE Reverse(Tail(s)) \o <<Head(s)>>

RECURSIVE NNorm(_)
NNorm(a) ==
    IF a = <<>> THEN <<>>
    ELSE IF a[Len(a)] = 0 THEN NNorm(SubSeq(a, 1, Len(a) - 1))
    ELSE a

RECURSIVE NFromInt(_)
NFromInt(n) == IF n = 0 THEN <<>> ELSE <<n % 256>> \o NFromInt(n \div 256)

NHead(a) == IF a = <<>> THEN 0 ELSE Head(a)
NTail(a) == IF a = <<>> THEN <<>> ELSE Tail(a)

RECURSIVE NAddC(_, _, _)
NAddC(a, b, c) ==
    IF a = <<>> /\ b = <<>> THEN (IF c = 0 THEN <<>> ELSE <<c>>)
    ELSE LET s == NHead(a) + NHead(b) + c
         IN  <<s % 256>> \o NAddC(NTail(a), NTail(b), s \div 256)

NAdd(a, b) == NNorm(NAddC(a, b, 0))

\* a - b for a >= b
RECURSIVE NSubB(_, _, _)
NSubB(a, b, w) ==
    IF a = <<>> THEN <<>>
    ELSE LET d == NHead(a) - NHead(b) - w
         IN  IF d < 0 THEN <<d + 256>> \o NSubB(NTail(a), NTail(b), 1)
             ELSE <<d>> \o NSubB(NTail(a), NTail(b), 0)

NSub(a, b) == NNorm(NSubB(a, b, 0))

RECURSIVE NMulLimb(_, _, _)
NMulLimb(a, m, c) ==
    IF a = <<>> THEN (IF c = 0 THEN <<>> ELSE <<c % 256>> \o NMulLimb(<<>>, m, c \div 256))
    ELSE LET s == Head(a) * m + c
         IN  <<s % 256>> \o NMulLimb(Tail(a), m, s \div 256)

RECURSIVE NMul(_, _)
NMul(a, b) ==
    IF b = <<>> \/ a = <<>> THEN <<>>
    ELSE NAdd(NMulLimb(a, Head(b), 0), NNorm(<<0>> \o NMul(a, Tail(b))))

\* a < b on normalized values
RECURSIVE NLessSameLen(_, _)
NLessSameLen(a, b) ==
    IF a = <<>> THEN FALSE
    ELSE IF a[Len(a)] # b[Len(b)] THEN a[Len(a)] < b[Len(b)]
    ELSE NLessSameLen(SubSeq(a, 1, Len(a) - 1), SubSeq(b, 1, Len(b) - 1))

NLess(a, b) ==
    IF Len(a) # Len(b) THEN Len(a) < Len(b) ELSE NLessSameLen(a, b)

\* the low k limbs: a mod 256^k
NTrunc(a, k) == NNorm(SubSeq(a, 1, IF Len(a) < k THEN Len(a) ELSE k))

\* exactly k limbs (a < 256^k)
NPad(a, k) == a \o [i \in 1..(k - Len(a)) |-> 0]

\* Long division by a divisor d <= 2^30, one bit at a time (2r+1 < 2^31).
RECURSIVE DivLimb(_, _, _, _, _)
DivLimb(r, limb, d, k, q) ==
    IF k < 0 THEN [q |-> q, r |-> r]
    ELSE LET r2 == 2 * r + ((limb \div Pow(2, k)) % 2)
         IN  IF r2 >= d THEN DivLimb(r2 - d, limb, d, k - 1, 2 * q + 1)
             ELSE DivLimb(r2, limb, d, k - 1, 2 * q)

RECURSIVE NDivRec(_, _)
NDivRec(a, d) ==
    IF a = <<>> THEN [q |-> <<>>, r |-> 0]
    ELSE With(NDivRec(Tail(a), d), LAMBDA hi :
         With(DivLimb(hi.r, Head(a), d, 7, 0), LAMBDA st :
             [q |-> <<st.q>> \o hi.q, r |-> st.r]))

NDiv(a, d) == NNorm(NDivRec(a, d).q)
NMod(a, d) == NDivRec(a, d).r

N2p32 == <<0, 0, 0, 0, 1>>
N2p64 == <<0, 0, 0, 0, 0, 0, 0, 0, 1>>


\* ------------------------------------------------------------------------
\* Results
\* ------------------------------------------------------------------------

Ok(v) == [tag |-> "Ok", val |-> v]
Err(e) == [tag |-> "Err", err |-> e]
\* a Rust panic (failed unwrap/expect, index out of bounds, checked overflow)
Panic == [tag |-> "Panic"]

\* ------------------------------------------------------------------------
\* Byte codec primitives (byteorder)
\* ------------------------------------------------------------------------

write_u16(B, n) ==
    IF B = "Big" THEN <<n \div 256, n % 256>> ELSE <<n % 256, n \div 256>>

write_u32(B, n) ==
    IF B = "Big"
    THEN <<n \div 16777216, (n \div 65536) % 256, (n \div 256) % 256, n % 256>>
    ELSE <<n % 256, (n \div 256) % 256, (n \div 65536) % 256, n \div 16777216>>

read_u16(B, s) ==
    IF B = "Big" THEN s[1] * 256 + s[2] ELSE s[2] * 256 + s[1]

read_u32(B, s) ==
    IF B = "Big"
    THEN s[1] * 16777216 + s[2] * 65536 + s[3] * 256 + s[4]
    ELSE s[4] * 16777216 + s[3] * 65536 + s[2] * 256 + s[1]

\* a u32 / u64 that may exceed the machine integers, as limbs
read_u32N(B, s) == IF B = "Big" THEN Reverse(SubSeq(s, 1, 4)) ELSE SubSeq(s, 1, 4)
write_u32N(B, limbs) == IF B = "Big" THEN Reverse(NPad(limbs, 4)) ELSE NPad(limbs, 4)
read_u64N(B, s) == NNorm(IF B = "Big" THEN Reverse(SubSeq(s, 1, 8)) ELSE SubSeq(s, 1, 8))
write_u64N(B, limbs) == IF B = "Big" THEN Reverse(NPad(limbs, 8)) ELSE NPad(limbs, 8)

\* ------------------------------------------------------------------------
\* std::time::Duration: a count of nanoseconds below 2^64 seconds
\* ------------------------------------------------------------------------

DurationLimit == NMul(N2p64, NFromInt(1000000000))
Duration_from_secs(secs) == NMul(secs, NFromInt(1000000000))
\* Add / Sub / Mul panic on overflow or underflow
Duration_add(a, b) ==
    With(NAdd(a, b), LAMBDA s : IF NLess(s, DurationLimit) THEN Ok(s) ELSE Panic)
Duration_sub(a, b) == IF NLess(a, b) THEN Panic ELSE Ok(NSub(a, b))
Duration_mul(a, m) ==
    With(NMul(a, NFromInt(m)), LAMBDA p : IF NLess(p, DurationLimit) THEN Ok(p) ELSE Panic)

\* ------------------------------------------------------------------------
\* TsResolution (pcapng/blocks/interface_description.rs)
\* ------------------------------------------------------------------------

TsResolution_MICRO == 6
TsResolution_NANO == 9

\* TsResolution::new without the check of the binary exponent
TsResolution_new_decimal(ts_resol) ==
    LET is_bin == (ts_resol \div 128) % 2 = 1
        resol == ts_resol % 128
    IN  IF ~is_bin /\ resol > 9 THEN Err("InvalidTsResolution")
        ELSE Ok(ts_resol)

TsResolution_new(ts_resol) ==
    LET is_bin == (ts_resol \div 128) % 2 = 1
        resol == ts_resol % 128
    IN  IF is_bin /\ resol > 30 THEN Err("InvalidTsResolution")
        ELSE IF ~is_bin /\ resol > 9 THEN Err("InvalidTsResolution")
        ELSE Ok(ts_resol)

\* The binary table holds the 30 entries (0..30).map(|i| 2^(30-i)), the decimal
\* one the 10 entries (0..10).map(|i| 10^(9-i)); an index past the table is a
\* panic, given here as -1.
to_nano_secs(ts) ==
    LET is_bin == (ts \div 128) % 2 = 1
        resol == ts % 128
    IN  IF is_bin
        THEN (IF resol < 30 THEN Pow(2, 30 - resol) ELSE -1)
        ELSE (IF resol < 10 THEN Pow(10, 9 - resol) ELSE -1)

\* ------------------------------------------------------------------------
\* Typed blocks
\* ------------------------------------------------------------------------

SectionHeaderBlock(e) ==
    [kind |-> "SectionHeader", endianness |-> e, major_version |-> 1,
     minor_version |-> 0, section_length |-> <<255, 255, 255, 255, 255, 255, 255, 255>>,
     options |-> <<>>]

IfTsResol(v) == [opt |-> "IfTsResol", value |-> v]
IfTsOffset(secs) == [opt |-> "IfTsOffset", value |-> secs]

InterfaceDescriptionBlock(opts) ==
    [kind |-> "InterfaceDescription", linktype |-> 1, snaplen |-> 65535, options |-> opts]

\* Default::default() leaves write_ts_resolution at TsResolution::default()
EnhancedPacketBlock(id, ts, data) ==
    [kind |-> "EnhancedPacket", interface_id |-> id, timestamp |-> ts,
     original_len |-> Len(data), data |-> data, options |-> <<>>,
     write_ts_resolution |-> TsResolution_MICRO]

UnknownBlock(t, len, value) ==
    [kind |-> "Unknown", type_ |-> t, length |-> len, value |-> value]

\* InterfaceDescriptionBlock::ts_resolution: the first if_tsresol option,
\* validated; microseconds when there is none.
RECURSIVE ts_resolution_opts(_)
ts_resolution_opts(opts) ==
    IF opts = <<>> THEN Ok(TsResolution_MICRO)
    ELSE IF Head(opts).opt = "IfTsResol" THEN TsResolution_new(Head(opts).value)
    ELSE ts_resolution_opts(Tail(opts))

ts_resolution(blk) == ts_resolution_opts(blk.options)

\* InterfaceDescriptionBlock::ts_offset: the if_tsoffset option, in seconds,
\* as a Duration; zero when there is none.
RECURSIVE ts_offset_opts(_)
ts_offset_opts(opts) ==
    IF opts = <<>> THEN <<>>
    ELSE IF Head(opts).opt = "IfTsOffset" THEN Duration_from_secs(Head(opts).value)
    ELSE ts_offset_opts(Tail(opts))

ts_offset(blk) == ts_offset_opts(blk.options)


\* ------------------------------------------------------------------------
\* Options (pcapng/blocks/opt_common.rs, interface_description.rs)
\* ------------------------------------------------------------------------

Take(s, n) == SubSeq(s, 1, n)
Drop(s, n) == SubSeq(s, n + 1, Len(s))
Zeros(n) == [i \in 1..n |-> 0]
pad_len(n) == (4 - (n % 4)) % 4

UnknownOption(code, value) == [opt |-> "Unknown", code |-> code, value |-> value]

\* WriteOptTo for u8 (code, 1, value, 3 pad), u64 (code, 8, value) and
\* byte strings (code, len, value, pad)
write_opt_to(B, opt) ==
    CASE opt.opt = "IfTsResol" ->
           write_u16(B, 9) \o write_u16(B, 1) \o <<opt.value>> \o Zeros(3)
      [] opt.opt = "IfTsOffset" ->
           write_u16(B, 14) \o write_u16(B, 8) \o write_u64N(B, opt.value)
      [] OTHER ->
           write_u16(B, opt.code) \o write_u16(B, Len(opt.value)) \o opt.value
             \o Zeros(pad_len(Len(opt.value)))

RECURSIVE write_each_opt(_, _)
write_each_opt(B, opts) ==
    IF opts = <<>> THEN <<>>
    ELSE write_opt_to(B, Head(opts)) \o write_each_opt(B, Tail(opts))

\* every option, then the 0/0 terminator when there was at least one
write_opts_to(B, opts) ==
    IF opts = <<>> THEN <<>>
    ELSE write_each_opt(B, opts) \o write_u16(B, 0) \o write_u16(B, 0)

\* CustomBinaryOption::from_slice: the enterprise number, then the value; the
\* option keeps the bytes of both, which is what is written back
CustomBinaryOption_from_slice(B, code, src) ==
    IF Len(src) < 4 THEN Err("IncompleteBuffer")
    ELSE Ok([opt |-> "CustomBinary", code |-> code, pen |-> read_u32N(B, src),
             value |-> src])

\* InterfaceDescriptionOption::from_slice for the codes the model uses.
\* Code 10 (if_tzone) demands a 1-byte value and then reads a u32 from it.
InterfaceDescriptionOption_from_slice(B, code, slice) ==
    CASE code = 9 ->
           IF Len(slice) # 1 THEN Err("InvalidField") ELSE Ok(IfTsResol(slice[1]))
      [] code = 10 ->
           IF Len(slice) # 1 THEN Err("InvalidField") ELSE Err("IncompleteBuffer")
      [] code = 14 ->
           IF Len(slice) # 8 THEN Err("InvalidField")
           ELSE Ok(IfTsOffset(read_u64N(B, slice)))
      [] code \in {2989, 19373} -> CustomBinaryOption_from_slice(B, code, slice)
      [] OTHER -> Ok(UnknownOption(code, slice))

\* the options of the other blocks: apart from the custom binary option, the
\* codes the model uses are all unknown ones
Option_from_slice(owner, B, code, slice) ==
    IF owner = "InterfaceDescription"
    THEN InterfaceDescriptionOption_from_slice(B, code, slice)
    ELSE IF owner = "EnhancedPacket" /\ code \in {2989, 19373}
    THEN CustomBinaryOption_from_slice(B, code, slice)
    ELSE Ok(UnknownOption(code, slice))

\* the loop that asks for an end-of-options option after the last option
RECURSIVE opts_from_slice_loop_terminated(_, _, _, _)
opts_from_slice_loop_terminated(owner, B, slice, options) ==
    IF slice = <<>> /\ options = <<>> THEN Ok([rem |-> slice, options |-> options])
    ELSE IF Len(slice) < 4 THEN Err("InvalidField")
    ELSE With(<<read_u16(B, slice), read_u16(B, Drop(slice, 2)), Drop(slice, 4)>>,
           LAMBDA h :
             IF h[1] = 0 THEN Ok([rem |-> h[3], options |-> options])
             ELSE IF Len(h[3]) < h[2] + pad_len(h[2]) THEN Err("InvalidField")
             ELSE With(Option_from_slice(owner, B, h[1], Take(h[3], h[2])),
                    LAMBDA opt :
                      IF opt.tag # "Ok" THEN opt
                      ELSE opts_from_slice_loop_terminated(owner, B,
                               Drop(h[3], h[2] + pad_len(h[2])),
                               Append(options, opt.val))))

RECURSIVE opts_from_slice_loop(_, _, _, _)
opts_from_slice_loop(owner, B, slice, options) ==
    IF slice = <<>> THEN Ok([rem |-> slice, options |-> options])
    ELSE IF Len(slice) < 4 THEN Err("InvalidField")
    ELSE With(<<read_u16(B, slice), read_u16(B, Drop(slice, 2)), Drop(slice, 4)>>,
           LAMBDA h :
             LET code == h[1]
                 length == h[2]
                 rest == h[3]
             IN  IF code = 0 THEN Ok([rem |-> rest, options |-> options])
                 ELSE IF Len(rest) < length + pad_len(length) THEN Err("InvalidField")
                 ELSE With(Option_from_slice(owner, B, code, Take(rest, length)),
                        LAMBDA opt :
                          IF opt.tag # "Ok" THEN opt
                          ELSE opts_from_slice_loop(owner, B,
                                   Drop(rest, length + pad_len(length)),
                                   Append(options, opt.val))))

opts_from_slice(owner, B, slice) == opts_from_slice_loop(owner, B, slice, <<>>)

\* ------------------------------------------------------------------------
\* Block bodies
\* ------------------------------------------------------------------------

MagicBig == <<26, 43, 60, 77>>
MagicLittle == <<77, 60, 43, 26>>

SectionHeaderBlock_parse_inner(B, e, slice) ==
    With(opts_from_slice("SectionHeader", B, Drop(slice, 12)), LAMBDA opts :
        IF opts.tag # "Ok" THEN opts
        ELSE Ok([rem |-> opts.val.rem,
                 block |-> [kind |-> "SectionHeader", endianness |-> e,
                            major_version |-> read_u16(B, slice),
                            minor_version |-> read_u16(B, Drop(slice, 2)),
                            section_length |-> read_u64N(B, Drop(slice, 4)),
                            options |-> opts.val.options]]))

\* from_slice that decodes the fields after the magic as big-endian
SectionHeaderBlock_from_slice_big(slice) ==
    IF Len(slice) < 16 THEN Err("InvalidField")
    ELSE IF Take(slice, 4) = MagicBig
         THEN SectionHeaderBlock_parse_inner("Big", "Big", Drop(slice, 4))
    ELSE IF Take(slice, 4) = MagicLittle
         THEN SectionHeaderBlock_parse_inner("Little", "Big", Drop(slice, 4))
    ELSE Err("InvalidField")

SectionHeaderBlock_from_slice(slice) ==
    IF Len(slice) < 16 THEN Err("InvalidField")
    ELSE IF Take(slice, 4) = MagicBig
         THEN SectionHeaderBlock_parse_inner("Big", "Big", Drop(slice, 4))
    ELSE IF Take(slice, 4) = MagicLittle
         THEN SectionHeaderBlock_parse_inner("Little", "Little", Drop(slice, 4))
    ELSE Err("InvalidField")

SectionHeaderBlock_write_to(B, blk) ==
    Ok((IF blk.endianness = "Big" THEN MagicBig ELSE MagicLittle)
       \o write_u16(B, blk.major_version) \o write_u16(B, blk.minor_version)
       \o write_u64N(B, blk.section_length) \o write_opts_to(B, blk.options))

InterfaceDescriptionBlock_from_slice(B, slice) ==
    IF Len(slice) < 8 THEN Err("InvalidField")
    ELSE IF read_u16(B, Drop(slice, 2)) # 0 THEN Err("InvalidField")
    ELSE With(opts_from_slice("InterfaceDescription", B, Drop(slice, 8)), LAMBDA opts :
             IF opts.tag # "Ok" THEN opts
             ELSE Ok([rem |-> opts.val.rem,
                      block |-> [kind |-> "InterfaceDescription",
                                 linktype |-> read_u16(B, slice),
                                 snaplen |-> read_u32(B, Drop(slice, 4)),
                                 options |-> opts.val.options]]))

InterfaceDescriptionBlock_write_to(B, blk) ==
    Ok(write_u16(B, blk.linktype) \o write_u16(B, 0) \o write_u32(B, blk.snaplen)
       \o write_opts_to(B, blk.options))

\* The parsed timestamp is the raw tick count taken as nanoseconds until
\* adjust_parsed_timestamp scales it.
EnhancedPacketBlock_from_slice(B, slice) ==
    IF Len(slice) < 20 THEN Err("InvalidField")
    ELSE LET interface_id == read_u32(B, slice)
             timestamp_high == read_u32N(B, Drop(slice, 4))
             timestamp_low == read_u32N(B, Drop(slice, 8))
             ts_raw == NNorm(timestamp_low \o timestamp_high)
             captured_len == read_u32(B, Drop(slice, 12))
             original_len == read_u32(B, Drop(slice, 16))
             tot_len == captured_len + pad_len(captured_len)
             rest == Drop(slice, 20)
         IN  IF Len(rest) < tot_len THEN Err("InvalidField")
             ELSE With(opts_from_slice("EnhancedPacket", B, Drop(rest, tot_len)),
                    LAMBDA opts :
                      IF opts.tag # "Ok" THEN opts
                      ELSE Ok([rem |-> opts.val.rem,
                               block |-> [kind |-> "EnhancedPacket",
                                          interface_id |-> interface_id,
                                          timestamp |-> ts_raw,
                                          original_len |-> original_len,
                                          data |-> Take(rest, captured_len),
                                          options |-> opts.val.options,
                                          write_ts_resolution |-> TsResolution_NANO]]))

adjust_parsed_timestamp(blk, ts_resol) ==
    IF to_nano_secs(ts_resol) < 0 THEN Panic
    ELSE With(Duration_mul(blk.timestamp, to_nano_secs(ts_resol)), LAMBDA t :
             IF t.tag # "Ok" THEN Panic
             ELSE Ok([blk EXCEPT !.timestamp = t.val]))

\* An error here is the io::Error "Timestamp too big".
EnhancedPacketBlock_write_to(B, blk) ==
    IF to_nano_secs(blk.write_ts_resolution) < 0 THEN Panic
    ELSE With(NDiv(blk.timestamp, to_nano_secs(blk.write_ts_resolution)), LAMBDA ts_raw :
             IF ~NLess(ts_raw, N2p64) THEN Err("TimestampTooBig")
             ELSE Ok(write_u32(B, blk.interface_id)
                     \o write_u32N(B, Drop(NPad(ts_raw, 8), 4))
                     \o write_u32N(B, Take(NPad(ts_raw, 8), 4))
                     \o write_u32(B, Len(blk.data)) \o write_u32(B, blk.original_len)
                     \o blk.data \o Zeros(pad_len(Len(blk.data)))
                     \o write_opts_to(B, blk.options)))

\* write_to that writes the stored length in front of the value
UnknownBlock_write_to_with_length(B, blk) == Ok(write_u32(B, blk.length) \o blk.value)

UnknownBlock_write_to(B, blk) == Ok(blk.value)


\* ------------------------------------------------------------------------
\* Block framing (pcapng/blocks/block_common.rs)
\* ------------------------------------------------------------------------

SECTION_HEADER_BLOCK == 168627466
INTERFACE_DESCRIPTION_BLOCK == 1
ENHANCED_PACKET_BLOCK == 6

\* inner_parse without the comparison of the two lengths
RawBlock_inner_parse_untrailed(B, slice, type_, initial_len) ==
    IF initial_len % 4 # 0 THEN Err("InvalidField")
    ELSE IF initial_len < 12 THEN Err("InvalidField")
    ELSE IF Len(slice) < initial_len - 8 THEN Err("IncompleteBuffer")
    ELSE Ok([rem |-> Drop(slice, initial_len - 8),
             block |-> [type_ |-> type_, initial_len |-> initial_len,
                        body |-> Take(slice, initial_len - 12),
                        trailer_len |-> initial_len]])

RawBlock_inner_parse(B, slice, type_, initial_len) ==
    IF initial_len % 4 # 0 THEN Err("InvalidField")
    ELSE IF initial_len < 12 THEN Err("InvalidField")
    ELSE IF Len(slice) < initial_len - 8 THEN Err("IncompleteBuffer")
    ELSE LET body_len == initial_len - 12
             rem == Drop(slice, body_len)
         IN  \* the trailing length is compared on its four bytes
             IF write_u32(B, initial_len) # Take(rem, 4) THEN Err("InvalidField")
             ELSE Ok([rem |-> Drop(rem, 4),
                      block |-> [type_ |-> type_, initial_len |-> initial_len,
                                 body |-> Take(slice, body_len),
                                 trailer_len |-> read_u32(B, rem)]])

\* from_slice that rejects a slice too short for the type, the length and
\* the trailing length
RawBlock_from_slice_rejecting(B, slice) ==
    IF Len(slice) < 12 THEN Err("InvalidField")
    ELSE IF read_u32(B, slice) = SECTION_HEADER_BLOCK
    THEN (IF SubSeq(slice, 9, 12) = MagicBig
          THEN RawBlock_inner_parse("Big", Drop(slice, 8), SECTION_HEADER_BLOCK,
                                    read_u32("Big", Drop(slice, 4)))
          ELSE IF SubSeq(slice, 9, 12) = MagicLittle
          THEN RawBlock_inner_parse("Little", Drop(slice, 8), SECTION_HEADER_BLOCK,
                                    read_u32("Little", Drop(slice, 4)))
          ELSE Err("InvalidField"))
    ELSE RawBlock_inner_parse(B, Drop(slice, 8), read_u32(B, slice),
                              read_u32(B, Drop(slice, 4)))

\* A Section Header is framed by its own magic, whatever B is.
RawBlock_from_slice(B, slice) ==
    IF Len(slice) < 12 THEN Err("IncompleteBuffer")
    ELSE LET type_ == read_u32(B, slice)
             rest == Drop(slice, 4)
         IN  IF type_ = SECTION_HEADER_BLOCK
             THEN (IF SubSeq(rest, 5, 8) = MagicBig
                   THEN RawBlock_inner_parse("Big", Drop(rest, 4), type_,
                                             read_u32("Big", rest))
                   ELSE IF SubSeq(rest, 5, 8) = MagicLittle
                   THEN RawBlock_inner_parse("Little", Drop(rest, 4), type_,
                                             read_u32("Little", rest))
                   ELSE Err("InvalidField"))
             ELSE RawBlock_inner_parse(B, Drop(rest, 4), type_, read_u32(B, rest))

RawBlock_write_to(B, raw) ==
    write_u32(B, raw.type_) \o write_u32(B, raw.initial_len) \o raw.body
      \o write_u32(B, raw.trailer_len)

\* Block::try_from_raw_block for the block types of the model: every other
\* type code becomes an Unknown block.
try_from_raw_block(B, raw) ==
    CASE raw.type_ = SECTION_HEADER_BLOCK ->
           With(SectionHeaderBlock_from_slice(raw.body), LAMBDA r :
               IF r.tag # "Ok" THEN r ELSE Ok(r.val.block))
      [] raw.type_ = INTERFACE_DESCRIPTION_BLOCK ->
           With(InterfaceDescriptionBlock_from_slice(B, raw.body), LAMBDA r :
               IF r.tag # "Ok" THEN r ELSE Ok(r.val.block))
      [] raw.type_ = ENHANCED_PACKET_BLOCK ->
           With(EnhancedPacketBlock_from_slice(B, raw.body), LAMBDA r :
               IF r.tag # "Ok" THEN r ELSE Ok(r.val.block))
      [] OTHER -> Ok(UnknownBlock(raw.type_, raw.initial_len, raw.body))

Block_from_slice(B, slice) ==
    With(RawBlock_from_slice(B, slice), LAMBDA r :
        IF r.tag # "Ok" THEN r
        ELSE With(try_from_raw_block(B, r.val.block), LAMBDA b :
                 IF b.tag # "Ok" THEN b
                 ELSE Ok([rem |-> r.val.rem, block |-> b.val])))

block_code(blk) ==
    CASE blk.kind = "SectionHeader" -> SECTION_HEADER_BLOCK
      [] blk.kind = "InterfaceDescription" -> INTERFACE_DESCRIPTION_BLOCK
      [] blk.kind = "EnhancedPacket" -> ENHANCED_PACKET_BLOCK
      [] OTHER -> blk.type_

body_write_to(B, blk) ==
    CASE blk.kind = "SectionHeader" -> SectionHeaderBlock_write_to(B, blk)
      [] blk.kind = "InterfaceDescription" -> InterfaceDescriptionBlock_write_to(B, blk)
      [] blk.kind = "EnhancedPacket" -> EnhancedPacketBlock_write_to(B, blk)
      [] OTHER -> UnknownBlock_write_to(B, blk)

\* Block::write_to / inner_write_to: the body is first written to a null sink
\* to learn its length and that result is unwrapped, so a body that cannot be
\* written is a panic; otherwise the bytes offered to the writer, in order.
Block_write_to(B, blk) ==
    With(body_write_to(B, blk), LAMBDA dry :
        IF dry.tag # "Ok" THEN Panic
        ELSE LET data_len == Len(dry.val)
                 block_len == data_len + pad_len(data_len) + 12
             IN  Ok(write_u32(B, block_code(blk)) \o write_u32(B, block_len)
                    \o dry.val \o Zeros(pad_len(data_len))
                    \o write_u32(B, block_len)))


\* ------------------------------------------------------------------------
\* PcapNgState (pcapng/state.rs)
\* ------------------------------------------------------------------------

\* PcapNgState::default()
PcapNgState_default ==
    [section |-> SectionHeaderBlock("Big"), interfaces |-> <<>>, ts_parameters |-> <<>>]

\* an update that replaces the section but keeps the tables of the old one
update_from_block_keeping(st, block) ==
    CASE block.kind = "SectionHeader" ->
           [res |-> Ok("unit"), st |-> [st EXCEPT !.section = block]]
      [] block.kind = "InterfaceDescription" ->
           [res |-> Ok("unit"),
            st |-> [st EXCEPT
                      !.ts_parameters = Append(@, <<TsResolution_MICRO, <<>> >>),
                      !.interfaces = Append(@, block)]]
      [] OTHER -> [res |-> Ok("unit"), st |-> st]

\* an update that stores the interface before it validates its if_tsresol
update_from_block_storing_first(st, block) ==
    CASE block.kind = "SectionHeader" ->
           [res |-> Ok("unit"),
            st |-> [section |-> block, interfaces |-> <<>>, ts_parameters |-> <<>>]]
      [] block.kind = "InterfaceDescription" ->
           With(ts_resolution(block), LAMBDA r :
               IF r.tag # "Ok"
               THEN [res |-> r, st |-> [st EXCEPT !.interfaces = Append(@, block)]]
               ELSE [res |-> Ok("unit"),
                     st |-> [st EXCEPT
                               !.ts_parameters = Append(@, <<r.val, ts_offset(block)>>),
                               !.interfaces = Append(@, block)]])
      [] OTHER -> [res |-> Ok("unit"), st |-> st]

update_from_block(st, block) ==
    CASE block.kind = "SectionHeader" ->
           [res |-> Ok("unit"),
            st |-> [section |-> block, interfaces |-> <<>>, ts_parameters |-> <<>>]]
      [] block.kind = "InterfaceDescription" ->
           With(ts_resolution(block), LAMBDA r :
               IF r.tag # "Ok" THEN [res |-> r, st |-> st]
               ELSE [res |-> Ok("unit"),
                     st |-> [st EXCEPT
                               !.ts_parameters = Append(@, <<r.val, ts_offset(block)>>),
                               !.interfaces = Append(@, block)]])
      [] OTHER -> [res |-> Ok("unit"), st |-> st]

\* update_from_raw_block that looks at Section Headers only
update_from_raw_block_sections_only(st, B, raw_block) ==
    IF raw_block.type_ = SECTION_HEADER_BLOCK
    THEN With(try_from_raw_block(B, raw_block), LAMBDA block :
             IF block.tag # "Ok" THEN [res |-> block, st |-> st]
             ELSE update_from_block(st, block.val))
    ELSE [res |-> Ok("unit"), st |-> st]

update_from_raw_block(st, B, raw_block) ==
    IF raw_block.type_ \in {SECTION_HEADER_BLOCK, INTERFACE_DESCRIPTION_BLOCK}
    THEN With(try_from_raw_block(B, raw_block), LAMBDA block :
             IF block.tag # "Ok" THEN [res |-> block, st |-> st]
             ELSE update_from_block(st, block.val))
    ELSE [res |-> Ok("unit"), st |-> st]

\* ts_raw * to_nano_secs() is a u64 multiplication: with overflow checks it
\* panics, without them the product wraps modulo 2^64.
decode_timestamp(st, B, interface_id, slice, checks) ==
    IF Len(slice) < 8 THEN Err("IncompleteBuffer")
    ELSE LET timestamp_high == read_u32N(B, slice)
             timestamp_low == read_u32N(B, Drop(slice, 4))
             ts_raw == NNorm(timestamp_low \o timestamp_high)
         IN  IF interface_id >= Len(st.ts_parameters) THEN Err("InvalidInterfaceId")
             ELSE LET ts_resol == st.ts_parameters[interface_id + 1][1]
                      offset == st.ts_parameters[interface_id + 1][2]
                  IN  IF to_nano_secs(ts_resol) < 0 THEN Panic
                      ELSE With(NMul(ts_raw, NFromInt(to_nano_secs(ts_resol))),
                             LAMBDA prod :
                               IF checks /\ ~NLess(prod, N2p64) THEN Panic
                               ELSE Duration_add(NTrunc(prod, 8), offset))

\* the value of an Ok result is the 8 bytes written
encode_timestamp(st, B, interface_id, timestamp) ==
    IF interface_id >= Len(st.ts_parameters) THEN Err("InvalidInterfaceId")
    ELSE LET ts_resol == st.ts_parameters[interface_id + 1][1]
             offset == st.ts_parameters[interface_id + 1][2]
         IN  With(Duration_sub(timestamp, offset), LAMBDA ts_relative :
             IF ts_relative.tag # "Ok" THEN Panic
             ELSE IF to_nano_secs(ts_resol) < 0 THEN Panic
             ELSE With(NDiv(ts_relative.val, to_nano_secs(ts_resol)), LAMBDA ts_raw :
                      IF ~NLess(ts_raw, N2p64) THEN Err("TimestampTooBig")
                      ELSE Ok(write_u32N(B, Drop(NPad(ts_raw, 8), 4))
                              \o write_u32N(B, Take(NPad(ts_raw, 8), 4)))))


\* ------------------------------------------------------------------------
\* State of the model
\* ------------------------------------------------------------------------

VARIABLES
    component,        \* which component of the library this behaviour exercises
    overflow_checks,  \* the build: TRUE when integer overflow panics (debug)
    state,            \* a PcapNgState
    state_call,       \* the last call made on it, with its result
    parser,           \* a PcapNgParser: section, interfaces, ts_resolutions
    parser_input,     \* the blocks the input stream was made of
    parser_src,       \* the bytes of the input not yet consumed
    parser_out,       \* the results returned so far, in order
    rb,               \* the reader's ReadBuffer: buffer, pos, len
    source,           \* the bytes the reader's source has not delivered yet
    writer,           \* a PcapNgWriter: section, interfaces, ts_resolutions
    sink,             \* the bytes the writer's sink has accepted
    writer_log,       \* the writer calls made so far, with their results
    pcap_input,       \* a classic PCAP stream
    pcap_src,         \* its bytes not yet consumed
    pcap_header,      \* the header read from it
    pcap_sink,        \* the bytes written by the classic writer
    pcap_log          \* the classic records copied so far

stateVars == <<overflow_checks, state, state_call>>
parserVars == <<parser, parser_input, parser_src, parser_out>>
readerVars == <<rb, source>>
writerVars == <<writer, sink, writer_log>>
pcapVars == <<pcap_input, pcap_src, pcap_header, pcap_sink, pcap_log>>
vars == <<component, stateVars, parserVars, readerVars, writerVars, pcapVars>>

\* a component that takes no part in a specification
IdleState == overflow_checks = FALSE /\ state = "idle" /\ state_call = "idle"
IdleParser ==
    parser = "idle" /\ parser_input = "idle" /\ parser_src = "idle" /\ parser_out = "idle"
IdleReader == rb = "idle" /\ source = "idle"
IdleWriter == writer = "idle" /\ sink = "idle" /\ writer_log = "idle"
IdlePcap ==
    /\ pcap_input = "idle" /\ pcap_src = "idle" /\ pcap_header = "idle"
    /\ pcap_sink = "idle" /\ pcap_log = "idle"

Endianness == {"Big", "Little"}

\* ------------------------------------------------------------------------
\* Inputs
\* ------------------------------------------------------------------------

\* the most interfaces a section is given
MaxInterfaces == 2

\* if_tsresol bytes: 10^0, 10^-6, 10^-9, the invalid 10 and 0x9F, and the
\* binary 2^-3 (0x83) and 2^-30 (0x9E)
IdbDefault == InterfaceDescriptionBlock(<<>>)
IdbResol(r) == InterfaceDescriptionBlock(<<IfTsResol(r)>>)
IdbResolOffset(r, secs) == InterfaceDescriptionBlock(<<IfTsResol(r), IfTsOffset(secs)>>)

StateIdbs ==
    {IdbDefault, IdbResol(0), IdbResol(6), IdbResol(9), IdbResol(10), IdbResol(158),
     IdbResolOffset(6, <<1>>), IdbResolOffset(131, <<2>>)}

\* raw tick counts: 0, 1, 1_704_187_433_132_051, 2^35 and 2^64-1
RawTicks ==
    {<<>>, <<1>>, <<19, 32, 149, 14, 243, 13, 6>>, <<0, 0, 0, 0, 8>>,
     <<255, 255, 255, 255, 255, 255, 255, 255>>}

\* Durations: 0, 1.5 s, 1_704_187_433.132_051 s, 18_446_744_074 s (the first
\* whole second past 2^64 ns) and 2^64 s - 1 ns (Duration::MAX)
Durations ==
    {<<>>, NFromInt(1500000000),
     NMul(<<19, 32, 149, 14, 243, 13, 6>>, NFromInt(1000)),
     Duration_from_secs(<<10, 250, 130, 75, 4>>),
     NSub(DurationLimit, <<1>>)}

StateBlocks ==
    {SectionHeaderBlock("Big"), SectionHeaderBlock("Little")} \cup StateIdbs
      \cup {EnhancedPacketBlock(0, <<>>, <<>>), UnknownBlock(7, 16, <<1, 2, 3, 4>>)}

\* the bytes of a block in a stream whose current section has endianness B
\* (a Section Header is written in its own endianness), and its raw block
Encoded(B, blk) ==
    Block_write_to(IF blk.kind = "SectionHeader" THEN blk.endianness ELSE B, blk).val
RawOf(B, blk) == With(Encoded(B, blk), LAMBDA bytes : RawBlock_from_slice(B, bytes).val.block)

\* ------------------------------------------------------------------------
\* PcapNgState: calls
\* ------------------------------------------------------------------------

InitState ==
    /\ component = "state"
    /\ overflow_checks \in BOOLEAN
    /\ state = PcapNgState_default
    /\ state_call = [op |-> "default", res |-> Ok("unit")]
    /\ IdleParser /\ IdleReader /\ IdleWriter /\ IdlePcap

StateLive == component = "state" /\ state_call.res.tag # "Panic"

StateUpdateFromBlock(block) ==
    /\ StateLive
    /\ block.kind = "InterfaceDescription" => Len(state.interfaces) < MaxInterfaces
    /\ \E r \in {update_from_block(state, block)} :
           /\ state' = r.st
           /\ state_call' = [op |-> "update_from_block", kind |-> block.kind,
                             before |-> Len(state.interfaces), res |-> r.res]
    /\ UNCHANGED <<component, overflow_checks, parserVars, readerVars, writerVars, pcapVars>>

StateUpdateFromRawBlock(block) ==
    /\ StateLive
    /\ block.kind = "InterfaceDescription" => Len(state.interfaces) < MaxInterfaces
    /\ \E raw \in {RawOf(state.section.endianness, block)} :
         \E r \in {update_from_raw_block(state, state.section.endianness, raw)} :
           /\ state' = r.st
           /\ state_call' = [op |-> "update_from_raw_block", kind |-> block.kind,
                             before |-> Len(state.interfaces), res |-> r.res]
    /\ UNCHANGED <<component, overflow_checks, parserVars, readerVars, writerVars, pcapVars>>

\* decode_timestamp on the 8 bytes of a raw tick count, or on the bytes the
\* last encode_timestamp wrote (then `encoded` is the Duration they encode)
StateDecodeTimestamp(interface_id, ticks, fresh) ==
    /\ StateLive
    /\ ~fresh => /\ state_call.op = "encode_timestamp"
                 /\ state_call.res.tag = "Ok"
                 /\ state_call.interface_id = interface_id
                 /\ ticks = <<>>
    /\ LET B == state.section.endianness
           slice == IF fresh THEN write_u64N(B, ticks) ELSE state_call.res.val
       IN  state_call' =
             [op |-> "decode_timestamp", interface_id |-> interface_id,
              ts_raw |-> read_u64N(B, slice),
              from_encode |-> ~fresh,
              encoded |-> IF fresh THEN <<>> ELSE state_call.timestamp,
              res |-> decode_timestamp(state, B, interface_id, slice, overflow_checks)]
    /\ UNCHANGED <<component, overflow_checks, state, parserVars, readerVars, writerVars, pcapVars>>

StateEncodeTimestamp(interface_id, timestamp) ==
    /\ StateLive
    /\ state_call' =
         [op |-> "encode_timestamp", interface_id |-> interface_id,
          timestamp |-> timestamp,
          res |-> encode_timestamp(state, state.section.endianness, interface_id, timestamp)]
    /\ UNCHANGED <<component, overflow_checks, state, parserVars, readerVars, writerVars, pcapVars>>

NextState ==
    \/ \E block \in StateBlocks : StateUpdateFromBlock(block)
    \/ \E block \in StateBlocks : StateUpdateFromRawBlock(block)
    \/ \E i \in 0..MaxInterfaces, t \in RawTicks, fresh \in BOOLEAN :
         StateDecodeTimestamp(i, t, fresh)
    \/ \E i \in 0..MaxInterfaces, d \in Durations : StateEncodeTimestamp(i, d)

SpecState == InitState /\ [][NextState]_vars


\* ------------------------------------------------------------------------
\* PcapNgParser (pcapng/parser.rs)
\* ------------------------------------------------------------------------

\* Ok carries the remainder and the parser
\* new that takes whatever block comes first
PcapNgParser_new_any_block(src) ==
    With(Block_from_slice("Big", src), LAMBDA r :
        IF r.tag # "Ok" THEN r
        ELSE Ok([rem |-> r.val.rem,
                 parser |-> [section |-> r.val.block, interfaces |-> <<>>,
                             ts_resolutions |-> <<>>]]))

PcapNgParser_new(src) ==
    With(Block_from_slice("Big", src), LAMBDA r :
        IF r.tag # "Ok" THEN r
        ELSE IF r.val.block.kind # "SectionHeader" THEN Err("InvalidField")
        ELSE Ok([rem |-> r.val.rem,
                 parser |-> [section |-> r.val.block, interfaces |-> <<>>,
                             ts_resolutions |-> <<>>]]))

\* the result (remainder and raw block when Ok) and the parser afterwards
next_raw_block_inner(p, B, src) ==
    With(RawBlock_from_slice(B, src), LAMBDA r :
        IF r.tag # "Ok" THEN [res |-> r, parser |-> p]
        ELSE CASE r.val.block.type_ = SECTION_HEADER_BLOCK ->
                    With(try_from_raw_block(B, r.val.block), LAMBDA d :
                        IF d.tag # "Ok" THEN [res |-> d, parser |-> p]
                        ELSE [res |-> r,
                              parser |-> [section |-> d.val, interfaces |-> <<>>,
                                          ts_resolutions |-> <<>>]])
               [] r.val.block.type_ = INTERFACE_DESCRIPTION_BLOCK ->
                    With(try_from_raw_block(B, r.val.block), LAMBDA d :
                        IF d.tag # "Ok" THEN [res |-> d, parser |-> p]
                        ELSE IF ts_resolution(d.val).tag # "Ok"
                             THEN [res |-> ts_resolution(d.val), parser |-> p]
                        ELSE [res |-> r,
                              parser |-> [p EXCEPT
                                  !.interfaces = Append(@, d.val),
                                  !.ts_resolutions = Append(@, ts_resolution(d.val).val)]])
               [] OTHER -> [res |-> r, parser |-> p])

next_raw_block(p, src) == next_raw_block_inner(p, p.section.endianness, src)

\* The byte order is that of the section before the call; an Enhanced Packet
\* is scaled by the resolution of its interface.
next_block(p, src) ==
    With(next_raw_block_inner(p, p.section.endianness, src), LAMBDA r :
        IF r.res.tag # "Ok" THEN r
        ELSE With(try_from_raw_block(p.section.endianness, r.res.val.block), LAMBDA b :
                 IF b.tag # "Ok" THEN [res |-> b, parser |-> r.parser]
                 ELSE IF b.val.kind # "EnhancedPacket"
                      THEN [res |-> Ok([rem |-> r.res.val.rem, block |-> b.val]),
                            parser |-> r.parser]
                 ELSE IF b.val.interface_id >= Len(r.parser.ts_resolutions)
                      THEN [res |-> Err("InvalidInterfaceId"), parser |-> r.parser]
                 ELSE With(adjust_parsed_timestamp(b.val,
                               r.parser.ts_resolutions[b.val.interface_id + 1]),
                        LAMBDA a :
                          IF a.tag # "Ok" THEN [res |-> Panic, parser |-> r.parser]
                          ELSE [res |-> Ok([rem |-> r.res.val.rem, block |-> a.val]),
                                parser |-> r.parser])))

\* ------------------------------------------------------------------------
\* PcapNgParser: calls.  The caller hands the parser, block after block, a
\* slice that starts with the next block of the stream.
\* ------------------------------------------------------------------------

\* the most blocks of a stream
MaxBlocks == 5

\* an Enhanced Packet of an input stream: its timestamp field is the raw
\* tick count
InputEpb(id, ticks, data) ==
    [EnhancedPacketBlock(id, ticks, data) EXCEPT !.write_ts_resolution = TsResolution_NANO]

ParserBlocks ==
    {SectionHeaderBlock("Little"), IdbDefault, IdbResol(10),
     InputEpb(0, <<19, 32, 149, 14, 243, 13, 6>>, <<1, 2, 3>>),
     InputEpb(1, <<1>>, <<>>)}

\* what follows a block in the slice: the start of the rest of the stream
NextBytes == <<0, 0, 0>>

InitParser ==
    /\ component = "parser"
    /\ \E e \in Endianness :
         \E r \in {PcapNgParser_new(Encoded(e, SectionHeaderBlock(e)) \o NextBytes)} :
             /\ parser = r.val.parser
             /\ parser_input = <<SectionHeaderBlock(e)>>
             /\ parser_src = r.val.rem
             /\ parser_out = <<[call |-> "new", res |-> Ok(r.val.parser.section)]>>
    /\ IdleState /\ IdleReader /\ IdleWriter /\ IdlePcap

ParserLive ==
    /\ component = "parser"
    /\ parser_out[Len(parser_out)].res.tag = "Ok"
    /\ Len(parser_input) < MaxBlocks

ParserNextBlock(blk) ==
    /\ ParserLive
    /\ blk.kind = "InterfaceDescription" => Len(parser.interfaces) < MaxInterfaces
    /\ \E src \in {Encoded(parser.section.endianness, blk) \o NextBytes} :
         \E r \in {next_block(parser, src)} :
           /\ parser' = r.parser
           /\ parser_input' = Append(parser_input, blk)
           /\ parser_src' = IF r.res.tag = "Ok" THEN r.res.val.rem ELSE parser_src
           /\ parser_out' = Append(parser_out,
                  [call |-> "next_block",
                   res |-> IF r.res.tag = "Ok" THEN Ok(r.res.val.block) ELSE r.res])
    /\ UNCHANGED <<component, stateVars, readerVars, writerVars, pcapVars>>

ParserNextRawBlock(blk) ==
    /\ ParserLive
    /\ blk.kind = "InterfaceDescription" => Len(parser.interfaces) < MaxInterfaces
    /\ \E src \in {Encoded(parser.section.endianness, blk) \o NextBytes} :
         \E r \in {next_raw_block(parser, src)} :
           /\ parser' = r.parser
           /\ parser_input' = Append(parser_input, blk)
           /\ parser_src' = IF r.res.tag = "Ok" THEN r.res.val.rem ELSE parser_src
           /\ parser_out' = Append(parser_out,
                  [call |-> "next_raw_block",
                   res |-> IF r.res.tag = "Ok" THEN Ok(r.res.val.block) ELSE r.res])
    /\ UNCHANGED <<component, stateVars, readerVars, writerVars, pcapVars>>

NextParser ==
    \/ \E blk \in ParserBlocks : ParserNextBlock(blk)
    \/ \E blk \in ParserBlocks : ParserNextRawBlock(blk)

SpecParser == InitParser /\ [][NextParser]_vars

\* Sections: the state calls that follow the stream, and the parser
InitSections == InitState \/ InitParser

NextSections ==
    \/ \E block \in StateBlocks : StateUpdateFromBlock(block)
    \/ \E block \in StateBlocks : StateUpdateFromRawBlock(block)
    \/ \E blk \in ParserBlocks : ParserNextBlock(blk)
    \/ \E blk \in ParserBlocks : ParserNextRawBlock(blk)

SpecSections == InitSections /\ [][NextSections]_vars

\* ------------------------------------------------------------------------
\* PcapNgWriter (pcapng/writer.rs)
\* ------------------------------------------------------------------------

\* The sink is an io::Write with `room` bytes left (a byte slice, a full
\* disk); room -1 is a sink that never fails (a Vec).  write_all stores what
\* fits and fails when something is left over.
write_all(snk, bytes) ==
    IF snk.room < 0 THEN [res |-> Ok("unit"), sink |-> [snk EXCEPT !.data = @ \o bytes]]
    ELSE IF Len(bytes) <= snk.room
    THEN [res |-> Ok("unit"),
          sink |-> [data |-> snk.data \o bytes, room |-> snk.room - Len(bytes)]]
    ELSE [res |-> Err("IoError"),
          sink |-> [data |-> snk.data \o Take(bytes, snk.room), room |-> 0]]

\* Block::write_to on the sink: the dry run may panic, then the pieces are
\* written one after the other until one fails.
Block_write_to_sink(B, blk, snk) ==
    With(Block_write_to(B, blk), LAMBDA enc :
        IF enc.tag # "Ok" THEN [res |-> Panic, sink |-> snk, emitted |-> <<>>]
        ELSE With(write_all(snk, enc.val), LAMBDA w :
                 [res |-> IF w.res.tag = "Ok" THEN Ok(Len(enc.val)) ELSE w.res,
                  sink |-> w.sink, emitted |-> enc.val]))

PcapNgWriter_with_section_header(snk, section) ==
    With(Block_write_to_sink(section.endianness, section, snk), LAMBDA w :
        [res |-> w.res, sink |-> w.sink, emitted |-> w.emitted,
         writer |-> [section |-> section, interfaces |-> <<>>, ts_resolutions |-> <<>>]])

\* the state update of write_block: the writer afterwards and the block as it
\* is written, or the error returned before anything is written
write_block_update(w, block) ==
    CASE block.kind = "SectionHeader" ->
           Ok([writer |-> [section |-> block, interfaces |-> <<>>, ts_resolutions |-> <<>>],
               block |-> block])
      [] block.kind = "InterfaceDescription" ->
           With(ts_resolution(block), LAMBDA r :
               IF r.tag # "Ok" THEN r
               ELSE Ok([writer |-> [w EXCEPT !.ts_resolutions = Append(@, r.val),
                                             !.interfaces = Append(@, block)],
                        block |-> block]))
      [] block.kind = "EnhancedPacket" ->
           IF block.interface_id >= Len(w.interfaces) THEN Err("InvalidInterfaceId")
           ELSE Ok([writer |-> w,
                    block |-> [block EXCEPT !.write_ts_resolution =
                                              w.ts_resolutions[block.interface_id + 1]]])
      [] OTHER -> Ok([writer |-> w, block |-> block])

write_block(w, snk, block) ==
    With(write_block_update(w, block), LAMBDA u :
        IF u.tag # "Ok" THEN [res |-> u, writer |-> w, sink |-> snk, emitted |-> <<>>]
        ELSE With(Block_write_to_sink(u.val.writer.section.endianness, u.val.block, snk),
               LAMBDA o :
                 [res |-> o.res, writer |-> u.val.writer, sink |-> o.sink,
                  emitted |-> o.emitted]))

\* The byte order is that of the section before the call; a Section Header
\* replaces the section and nothing else, no other block touches the writer.
write_raw_block(w, snk, raw) ==
    With(IF raw.type_ = SECTION_HEADER_BLOCK
         THEN try_from_raw_block(w.section.endianness, raw)
         ELSE Ok(w.section),
      LAMBDA sec :
        IF sec.tag # "Ok" THEN [res |-> sec, writer |-> w, sink |-> snk, emitted |-> <<>>]
        ELSE With(RawBlock_write_to(w.section.endianness, raw), LAMBDA bytes :
             With(write_all(snk, bytes), LAMBDA o :
                 [res |-> IF o.res.tag = "Ok" THEN Ok(Len(raw.body) + 12) ELSE o.res,
                  writer |-> [w EXCEPT !.section = sec.val],
                  sink |-> o.sink, emitted |-> bytes])))

\* ------------------------------------------------------------------------
\* PcapNgWriter: calls
\* ------------------------------------------------------------------------

\* the most write calls made on a writer
MaxWrites == 3

\* the room of the sink: unlimited, or too little for the header, for the
\* first block after it, for the second
SinkRooms == {-1, 8, 40, 60}

\* Enhanced Packets the caller builds: 1.5 s, and Duration::MAX whose tick
\* count at any resolution up to nanoseconds exceeds 2^64-1
WriterBlocks ==
    {SectionHeaderBlock("Little"), IdbDefault, IdbResol(9), IdbResol(10),
     EnhancedPacketBlock(0, NFromInt(1500000000), <<1, 2, 3>>),
     EnhancedPacketBlock(1, NFromInt(1500000000), <<>>),
     EnhancedPacketBlock(0, NSub(DurationLimit, <<1>>), <<>>)}

\* blocks handed over raw, as read from a stream of the writer's byte order
WriterRawBlocks ==
    {SectionHeaderBlock("Little"), SectionHeaderBlock("Big"), IdbDefault,
     UnknownBlock(7, 16, <<1, 2, 3, 4>>)}

InitWriter ==
    /\ component = "writer"
    /\ \E e \in Endianness, room \in SinkRooms :
         \E r \in {PcapNgWriter_with_section_header([data |-> <<>>, room |-> room],
                                                   SectionHeaderBlock(e))} :
           /\ writer = r.writer
           /\ sink = r.sink
           /\ writer_log = <<[call |-> "with_section_header",
                              block |-> SectionHeaderBlock(e),
                              res |-> r.res, emitted |-> r.emitted, before |-> 0]>>
    /\ IdleState /\ IdleParser /\ IdleReader /\ IdlePcap

\* a writer exists when its constructor returned Ok, and is gone after a panic
WriterLive ==
    /\ component = "writer"
    /\ writer_log[1].res.tag = "Ok"
    /\ writer_log[Len(writer_log)].res.tag # "Panic"
    /\ Len(writer_log) <= MaxWrites

WriterWriteBlock(block) ==
    /\ WriterLive
    /\ block.kind = "InterfaceDescription" => Len(writer.interfaces) < MaxInterfaces
    /\ \E r \in {write_block(writer, sink, block)} :
         /\ writer' = r.writer
         /\ sink' = r.sink
         /\ writer_log' = Append(writer_log,
                [call |-> "write_block", block |-> block, res |-> r.res,
                 emitted |-> r.emitted, before |-> Len(writer.interfaces)])
    /\ UNCHANGED <<component, stateVars, parserVars, readerVars, pcapVars>>

WriterWriteRawBlock(block) ==
    /\ WriterLive
    /\ \E raw \in {RawOf(writer.section.endianness, block)} :
       \E r \in {write_raw_block(writer, sink, raw)} :
         /\ writer' = r.writer
         /\ sink' = r.sink
         /\ writer_log' = Append(writer_log,
                [call |-> "write_raw_block", block |-> block, res |-> r.res,
                 emitted |-> r.emitted, before |-> Len(writer.interfaces)])
    /\ UNCHANGED <<component, stateVars, parserVars, readerVars, pcapVars>>

NextWriter ==
    \/ \E block \in WriterBlocks : WriterWriteBlock(block)
    \/ \E block \in WriterRawBlocks : WriterWriteRawBlock(block)

SpecWriter == InitWriter /\ [][NextWriter]_vars

\* ------------------------------------------------------------------------
\* Reading a stream and writing it back (tests/pcapng/mod.rs, `writer`)
\* ------------------------------------------------------------------------

\* the parser run over a whole stream held in one buffer: the results of new
\* and of next_block, until the bytes are used up or a call fails
RECURSIVE ParseRest(_, _, _)
ParseRest(p, src, out) ==
    IF src = <<>> THEN out
    ELSE With(next_block(p, src), LAMBDA r :
             IF r.res.tag # "Ok" THEN Append(out, r.res)
             ELSE ParseRest(r.parser, r.res.val.rem, Append(out, Ok(r.res.val.block))))

ParseAll(bytes) ==
    With(PcapNgParser_new(bytes), LAMBDA r :
        IF r.tag # "Ok" THEN <<r>>
        ELSE ParseRest(r.val.parser, r.val.rem, <<Ok(r.val.parser.section)>>))

\* the Interface Description Blocks of a sequence of blocks since its last
\* Section Header
RECURSIVE IdbsInSection(_)
IdbsInSection(blocks) ==
    IF blocks = <<>> THEN 0
    ELSE IF blocks[Len(blocks)].kind = "SectionHeader" THEN 0
    ELSE IdbsInSection(SubSeq(blocks, 1, Len(blocks) - 1))
           + (IF blocks[Len(blocks)].kind = "InterfaceDescription" THEN 1 ELSE 0)

\* the blocks of well-formed streams: valid resolutions only (10^-9, 2^-3 and
\* 2^-30 among them), packets on described interfaces only
CopyBlocks ==
    {SectionHeaderBlock("Little"), IdbDefault, IdbResol(9), IdbResol(131), IdbResol(158),
     InputEpb(0, <<19, 32, 149, 14, 243, 13, 6>>, <<1, 2, 3>>),
     InputEpb(1, <<255, 255, 255, 255, 255, 255, 255, 255>>, <<>>),
     UnknownBlock(7, 16, <<1, 2, 3, 4>>)}

\* the reader is opened on the stream and the writer created with the
\* section it found, on a Vec
InitCopy ==
    /\ component = "copy"
    /\ \E e \in Endianness :
         \E r \in {PcapNgParser_new(Encoded(e, SectionHeaderBlock(e)))} :
         \E w \in {PcapNgWriter_with_section_header([data |-> <<>>, room |-> -1],
                                                   r.val.parser.section)} :
           /\ parser = r.val.parser
           /\ parser_input = <<SectionHeaderBlock(e)>>
           /\ parser_src = r.val.rem
           /\ parser_out = <<[call |-> "new", res |-> Ok(r.val.parser.section)]>>
           /\ writer = w.writer
           /\ sink = w.sink
           /\ writer_log = <<[call |-> "with_section_header",
                              block |-> r.val.parser.section,
                              res |-> w.res, emitted |-> w.emitted, before |-> 0]>>
    /\ IdleState /\ IdleReader /\ IdlePcap

CopyLive ==
    /\ component = "copy"
    /\ parser_out[Len(parser_out)].res.tag = "Ok"
    /\ writer_log[Len(writer_log)].res.tag = "Ok"
    /\ Len(parser_input) < MaxBlocks

\* one turn of the loop: next_block, then write_block of the block read
CopyBlock(blk) ==
    /\ CopyLive
    /\ blk.kind = "InterfaceDescription" => IdbsInSection(parser_input) < MaxInterfaces
    /\ blk.kind = "EnhancedPacket" => blk.interface_id < IdbsInSection(parser_input)
    /\ \E r \in {next_block(parser, Encoded(parser.section.endianness, blk))} :
         /\ parser' = r.parser
         /\ parser_input' = Append(parser_input, blk)
         /\ parser_src' = parser_src
         /\ parser_out' = Append(parser_out,
                [call |-> "next_block",
                 res |-> IF r.res.tag = "Ok" THEN Ok(r.res.val.block) ELSE r.res])
         /\ IF r.res.tag # "Ok" THEN UNCHANGED writerVars
            ELSE \E w \in {write_block(writer, sink, r.res.val.block)} :
                   /\ writer' = w.writer
                   /\ sink' = w.sink
                   /\ writer_log' = Append(writer_log,
                          [call |-> "write_block", block |-> r.res.val.block,
                           res |-> w.res, emitted |-> w.emitted,
                           before |-> Len(writer.interfaces)])
    /\ UNCHANGED <<component, stateVars, readerVars, pcapVars>>

NextCopy == \E blk \in CopyBlocks : CopyBlock(blk)

SpecCopy == InitCopy /\ [][NextCopy]_vars

\* ------------------------------------------------------------------------
\* ReadBuffer (read_buffer.rs) and PcapNgReader (pcapng/reader.rs)
\* ------------------------------------------------------------------------

\* The capacity of the buffer, fixed when it is created.  It is 1_000_000 in
\* the source; the model scales it down together with the blocks it reads.
BUF_SIZE == 48

Min(a, b) == IF a < b THEN a ELSE b

\* `data` is buffer[pos..len], the only part of the buffer ever looked at
ReadBuffer_new == [data |-> <<>>, pos |-> 0, len |-> 0]

\* The unread bytes move to the front and one read fills what is left of the
\* buffer; the source hands over at most c bytes per read.
fill_buf(b, src, c) ==
    LET rem_len == b.len - b.pos
        nb_read == Min(Min(c, Len(src)), BUF_SIZE - rem_len)
    IN  [nb_read |-> nb_read,
         rb |-> [data |-> b.data \o Take(src, nb_read), pos |-> 0, len |-> rem_len + nb_read],
         source |-> Drop(src, nb_read)]

\* advance_raw that leaves the cursor where it was
advance_raw_unmoved(b, slice) == b

\* the cursor moves to the start of the remainder `slice`
advance_raw(b, slice) ==
    [data |-> slice, pos |-> b.len - Len(slice), len |-> b.len]

\* is_empty that looks at the buffer only
is_empty_unfilled(b, src, c) ==
    [empty |-> b.data = <<>>, rb |-> b, source |-> src]

is_empty(b, src, c) ==
    IF b.data = <<>>
    THEN With(fill_buf(b, src, c), LAMBDA f :
             [empty |-> f.nb_read = 0, rb |-> f.rb, source |-> f.source])
    ELSE [empty |-> FALSE, rb |-> b, source |-> src]

has_data_left(b, src, c) ==
    With(is_empty(b, src, c), LAMBDA e :
        [has_data |-> ~e.empty, rb |-> e.rb, source |-> e.source])

\* the parser function handed to parse_with: its result (remainder and value
\* when Ok) and the parser afterwards
run_parser(f, p, buf) ==
    CASE f = "new" ->
           With(PcapNgParser_new(buf), LAMBDA r :
               IF r.tag # "Ok" THEN [res |-> r, parser |-> p]
               ELSE [res |-> Ok([rem |-> r.val.rem, block |-> r.val.parser.section]),
                     parser |-> r.val.parser])
      [] f = "next_block" -> next_block(p, buf)
      [] OTHER -> next_raw_block(p, buf)

\* parse_with that drops what is buffered when the parser rejects it
RECURSIVE parse_with_dropping(_, _, _, _, _)
parse_with_dropping(f, p, b, src, c) ==
    With(run_parser(f, p, b.data), LAMBDA r :
        IF r.res.tag = "Ok"
        THEN [res |-> Ok(r.res.val.block), parser |-> r.parser,
              rb |-> advance_raw(b, r.res.val.rem), source |-> src]
        ELSE IF r.res = Err("IncompleteBuffer")
        THEN With(fill_buf(b, src, c), LAMBDA fb :
                 IF fb.nb_read = 0
                 THEN [res |-> Err("IoError(UnexpectedEof)"), parser |-> r.parser,
                       rb |-> fb.rb, source |-> fb.source]
                 ELSE parse_with_dropping(f, r.parser, fb.rb, fb.source, c))
        ELSE [res |-> r.res, parser |-> r.parser, rb |-> advance_raw(b, <<>>),
              source |-> src])

RECURSIVE parse_with(_, _, _, _, _)
parse_with(f, p, b, src, c) ==
    With(run_parser(f, p, b.data), LAMBDA r :
        IF r.res.tag = "Ok"
        THEN [res |-> Ok(r.res.val.block), parser |-> r.parser,
              rb |-> advance_raw(b, r.res.val.rem), source |-> src]
        ELSE IF r.res = Err("IncompleteBuffer")
        THEN With(fill_buf(b, src, c), LAMBDA fb :
                 IF fb.nb_read = 0
                 THEN [res |-> Err("IoError(UnexpectedEof)"), parser |-> r.parser,
                       rb |-> fb.rb, source |-> fb.source]
                 ELSE parse_with(f, r.parser, fb.rb, fb.source, c))
        ELSE [res |-> r.res, parser |-> r.parser, rb |-> b, source |-> src])

\* next_block and next_raw_block: None at the end of the data
PcapNgReader_next(f, p, b, src, c) ==
    With(has_data_left(b, src, c), LAMBDA h :
        IF h.has_data THEN parse_with(f, p, h.rb, h.source, c)
        ELSE [res |-> [tag |-> "None"], parser |-> p, rb |-> h.rb, source |-> h.source])

\* ------------------------------------------------------------------------
\* PcapNgReader: calls.  The source holds a stream of whole blocks and hands
\* over at most `c` bytes per read, c chosen call by call.
\* ------------------------------------------------------------------------

ChunkSizes == {6, 20, BUF_SIZE}

\* blocks of 20, 36, 52 and 16 bytes
ReaderBlocks ==
    {IdbDefault,
     InputEpb(0, <<19, 32, 149, 14, 243, 13, 6>>, <<1, 2, 3>>),
     InputEpb(0, <<1>>, [i \in 1..20 |-> i]),
     SectionHeaderBlock("Little"),
     UnknownBlock(7, 16, <<1, 2, 3, 4>>)}

ReaderStreams ==
    {<<>>} \cup {<<a>> : a \in ReaderBlocks}
           \cup {<<a, b>> : a \in ReaderBlocks, b \in ReaderBlocks}

\* the bytes of a stream of blocks that follows a section of byte order B
RECURSIVE StreamBytes(_, _)
StreamBytes(B, blocks) ==
    IF blocks = <<>> THEN <<>>
    ELSE Encoded(B, Head(blocks))
           \o StreamBytes(IF Head(blocks).kind = "SectionHeader"
                          THEN Head(blocks).endianness ELSE B, Tail(blocks))

\* PcapNgReader::new on the source
InitReader ==
    /\ component = "reader"
    /\ \E e \in Endianness, blocks \in ReaderStreams, c \in ChunkSizes :
         \E bytes \in {StreamBytes(e, <<SectionHeaderBlock(e)>> \o blocks)} :
         \E r \in {parse_with("new", PcapNgState_default, ReadBuffer_new, bytes, c)} :
           /\ parser = r.parser
           /\ rb = r.rb
           /\ source = r.source
           /\ parser_input = <<SectionHeaderBlock(e)>> \o blocks
           /\ parser_src = bytes
           /\ parser_out = <<[call |-> "new", res |-> r.res]>>
    /\ IdleState /\ IdleWriter /\ IdlePcap

ReaderLive ==
    /\ component = "reader"
    /\ parser_out[Len(parser_out)].res.tag = "Ok"

ReaderNextBlock(c) ==
    /\ ReaderLive
    /\ \E r \in {PcapNgReader_next("next_block", parser, rb, source, c)} :
         /\ parser' = r.parser
         /\ rb' = r.rb
         /\ source' = r.source
         /\ parser_out' = Append(parser_out, [call |-> "next_block", res |-> r.res])
    /\ UNCHANGED <<component, parser_input, parser_src, stateVars, writerVars, pcapVars>>

ReaderNextRawBlock(c) ==
    /\ ReaderLive
    /\ \E r \in {PcapNgReader_next("next_raw_block", parser, rb, source, c)} :
         /\ parser' = r.parser
         /\ rb' = r.rb
         /\ source' = r.source
         /\ parser_out' = Append(parser_out, [call |-> "next_raw_block", res |-> r.res])
    /\ UNCHANGED <<component, parser_input, parser_src, stateVars, writerVars, pcapVars>>

NextReader ==
    \/ \E c \in ChunkSizes : ReaderNextBlock(c)
    \/ \E c \in ChunkSizes : ReaderNextRawBlock(c)

SpecReader == InitReader /\ [][NextReader]_vars

\* Interface ids: the parser and the writer
InitInterfaceIds == InitParser \/ InitWriter

NextInterfaceIds ==
    \/ \E blk \in ParserBlocks : ParserNextBlock(blk)
    \/ \E blk \in ParserBlocks : ParserNextRawBlock(blk)
    \/ \E block \in WriterBlocks : WriterWriteBlock(block)
    \/ \E block \in WriterRawBlocks : WriterWriteRawBlock(block)

SpecInterfaceIds == InitInterfaceIds /\ [][NextInterfaceIds]_vars

\* ------------------------------------------------------------------------
\* Classic PCAP: header, packets, and the copy of a stream
\* ------------------------------------------------------------------------

RECURSIVE NToInt(_)
NToInt(a) == IF a = <<>> THEN 0 ELSE Head(a) + 256 * NToInt(Tail(a))
NLeq(a, b) == ~NLess(b, a)

\* an i32, two's complement
read_i32(B, s) ==
    With(read_u32N(B, s), LAMBDA b :
        IF b[4] < 128
        THEN NToInt(b)
        ELSE -1 - NToInt([i \in 1..4 |-> 255 - b[i]]))

write_i32(B, n) ==
    IF n >= 0
    THEN write_u32N(B, NFromInt(n))
    ELSE write_u32N(B, [i \in 1..4 |-> 255 - NPad(NFromInt(-1 - n), 4)[i]])

\* DataLink: From<u32> and Into<u32>
DataLink_from_table ==
    {
     <<0, "NULL">>, <<1, "ETHERNET">>, <<3, "AX25">>, <<6, "IEEE802_5">>,
     <<7, "ARCNET_BSD">>, <<8, "SLIP">>, <<9, "PPP">>, <<10, "FDDI">>, <<50,
     "PPP_HDLC">>, <<51, "PPP_ETHER">>, <<100, "ATM_RFC1483">>, <<101,
     "RAW">>, <<104, "C_HDLC">>, <<105, "IEEE802_11">>, <<107, "FRELAY">>,
     <<108, "LOOP">>, <<113, "LINUX_SLL">>, <<114, "LTALK">>, <<117,
     "PFLOG">>, <<119, "IEEE802_11_PRISM">>, <<122, "IP_OVER_FC">>, <<123,
     "SUNATM">>, <<127, "IEEE802_11_RADIOTAP">>, <<129, "ARCNET_LINUX">>,
     <<138, "APPLE_IP_OVER_IEEE1394">>, <<139, "MTP2_WITH_PHDR">>, <<140,
     "MTP2">>, <<141, "MTP3">>, <<142, "SCCP">>, <<143, "DOCSIS">>, <<144,
     "LINUX_IRDA">>, <<147, "USER0">>, <<148, "USER1">>, <<149, "USER2">>,
     <<150, "USER3">>, <<151, "USER4">>, <<152, "USER5">>, <<153, "USER6">>,
     <<154, "USER7">>, <<155, "USER8">>, <<156, "USER9">>, <<157, "USER10">>,
     <<158, "USER11">>, <<159, "USER12">>, <<160, "USER13">>, <<161,
     "USER14">>, <<162, "USER15">>, <<163, "IEEE802_11_AVS">>, <<165,
     "BACNET_MS_TP">>, <<166, "PPP_PPPD">>, <<169, "GPRS_LLC">>, <<170,
     "GPF_T">>, <<171, "GPF_F">>, <<177, "LINUX_LAPD">>, <<187,
     "BLUETOOTH_HCI_H4">>, <<189, "USB_LINUX">>, <<192, "PPI">>, <<195,
     "IEEE802_15_4">>, <<196, "SITA">>, <<197, "ERF">>, <<201,
     "BLUETOOTH_HCI_H4_WITH_PHDR">>, <<202, "AX25_KISS">>, <<203, "LAPD">>,
     <<204, "PPP_WITH_DIR">>, <<205, "C_HDLC_WITH_DIR">>, <<206,
     "FRELAY_WITH_DIR">>, <<209, "IPMB_LINUX">>, <<215,
     "IEEE802_15_4_NONASK_PHY">>, <<220, "USB_LINUX_MMAPPED">>, <<224,
     "FC_2">>, <<225, "FC_2_WITH_FRAME_DELIMS">>, <<226, "IPNET">>, <<227,
     "CAN_SOCKETCAN">>, <<228, "IPV4">>, <<229, "IPV6">>, <<230,
     "IEEE802_15_4_NOFCS">>, <<231, "DBUS">>, <<235, "DVB_CI">>, <<236,
     "MUX27010">>, <<237, "STANAG_5066_D_PDU">>, <<239, "NFLOG">>, <<240,
     "NETANALYZER">>, <<241, "NETANALYZER_TRANSPARENT">>, <<242, "IPOIB">>,
     <<243, "MPEG_2_TS">>, <<244, "NG40">>, <<245, "NFC_LLCP">>, <<247,
     "INFINIBAND">>, <<248, "SCTP">>, <<249, "USBPCAP">>, <<250,
     "RTAC_SERIAL">>, <<251, "BLUETOOTH_LE_LL">>, <<253, "NETLINK">>, <<254,
     "BLUETOOTH_LINUX_MONITOR">>, <<255, "BLUETOOTH_BREDR_BB">>, <<256,
     "BLUETOOTH_LE_LL_WITH_PHDR">>, <<257, "PROFIBUS_DL">>, <<258, "PKTAP">>,
     <<259, "EPON">>, <<260, "IPMI_HPM_2">>, <<261, "ZWAVE_R1_R2">>, <<262,
     "ZWAVE_R3">>, <<263, "WATTSTOPPER_DLM">>, <<264, "ISO_14443">>, <<265,
     "RDS">>, <<266, "USB_DARWIN">>, <<268, "SDLC">>
    }

DataLink_into_table ==
    {
     <<"NULL", 0>>, <<"ETHERNET", 1>>, <<"AX25", 3>>, <<"IEEE802_5", 6>>,
     <<"ARCNET_BSD", 7>>, <<"SLIP", 8>>, <<"PPP", 9>>, <<"FDDI", 10>>,
     <<"PPP_HDLC", 50>>, <<"PPP_ETHER", 51>>, <<"ATM_RFC1483", 100>>,
     <<"RAW", 101>>, <<"C_HDLC", 104>>, <<"IEEE802_11", 105>>, <<"FRELAY",
     107>>, <<"LOOP", 108>>, <<"LINUX_SLL", 113>>, <<"LTALK", 114>>,
     <<"PFLOG", 117>>, <<"IEEE802_11_PRISM", 119>>, <<"IP_OVER_FC", 122>>,
     <<"SUNATM", 123>>, <<"IEEE802_11_RADIOTAP", 127>>, <<"ARCNET_LINUX",
     129>>, <<"APPLE_IP_OVER_IEEE1394", 138>>, <<"MTP2_WITH_PHDR", 139>>,
     <<"MTP2", 140>>, <<"MTP3", 141>>, <<"SCCP", 142>>, <<"DOCSIS", 143>>,
     <<"LINUX_IRDA", 144>>, <<"USER0", 147>>, <<"USER1", 148>>, <<"USER2",
     149>>, <<"USER3", 150>>, <<"USER4", 151>>, <<"USER5", 152>>, <<"USER6",
     153>>, <<"USER7", 154>>, <<"USER8", 155>>, <<"USER9", 156>>, <<"USER10",
     157>>, <<"USER11", 158>>, <<"USER12", 159>>, <<"USER13", 160>>,
     <<"USER14", 161>>, <<"USER15", 162>>, <<"IEEE802_11_AVS", 163>>,
     <<"BACNET_MS_TP", 165>>, <<"PPP_PPPD", 166>>, <<"GPRS_LLC", 169>>,
     <<"GPF_T", 170>>, <<"GPF_F", 171>>, <<"LINUX_LAPD", 177>>,
     <<"BLUETOOTH_HCI_H4", 187>>, <<"USB_LINUX", 189>>, <<"PPI", 192>>,
     <<"IEEE802_15_4", 195>>, <<"SITA", 196>>, <<"ERF", 197>>,
     <<"BLUETOOTH_HCI_H4_WITH_PHDR", 201>>, <<"AX25_KISS", 202>>, <<"LAPD",
     203>>, <<"PPP_WITH_DIR", 204>>, <<"C_HDLC_WITH_DIR", 205>>,
     <<"FRELAY_WITH_DIR", 206>>, <<"IPMB_LINUX", 209>>,
     <<"IEEE802_15_4_NONASK_PHY", 215>>, <<"USB_LINUX_MMAPPED", 220>>,
     <<"FC_2", 224>>, <<"FC_2_WITH_FRAME_DELIMS", 225>>, <<"IPNET", 226>>,
     <<"CAN_SOCKETCAN", 227>>, <<"IPV4", 228>>, <<"IPV6", 229>>,
     <<"IEEE802_15_4_NOFCS", 230>>, <<"DBUS", 231>>, <<"DVB_CI", 235>>,
     <<"MUX27010", 236>>, <<"STANAG_5066_D_PDU", 237>>, <<"NFLOG", 239>>,
     <<"NETANALYZER", 240>>, <<"NETANALYZER_TRANSPARENT", 241>>, <<"IPOIB",
     242>>, <<"MPEG_2_TS", 243>>, <<"NG40", 244>>, <<"NFC_LLCP", 245>>,
     <<"INFINIBAND", 247>>, <<"SCTP", 248>>, <<"USBPCAP", 249>>,
     <<"RTAC_SERIAL", 250>>, <<"BLUETOOTH_LE_LL", 251>>, <<"NETLINK", 253>>,
     <<"BLUETOOTH_LINUX_MONITOR", 254>>, <<"BLUETOOTH_BREDR_BB", 255>>,
     <<"BLUETOOTH_LE_LL_WITH_PHDR", 256>>, <<"PROFIBUS_DL", 257>>, <<"PKTAP",
     258>>, <<"EPON", 259>>, <<"IPMI_HPM_2", 260>>, <<"ZWAVE_R1_R2", 261>>,
     <<"ZWAVE_R3", 262>>, <<"WATTSTOPPER_DLM", 263>>, <<"ISO_14443", 264>>,
     <<"RDS", 265>>, <<"USB_DARWIN", 266>>, <<"SDLC", 268>>
    }

DataLink_from(n) ==
    IF \E p \in DataLink_from_table : NFromInt(p[1]) = n
    THEN [link |-> (CHOOSE p \in DataLink_from_table : NFromInt(p[1]) = n)[2], n |-> <<>>]
    ELSE [link |-> "Unknown", n |-> n]

DataLink_into(link) ==
    IF link.link = "Unknown"
    THEN link.n
    ELSE NFromInt((CHOOSE p \in DataLink_into_table : p[1] = link.link)[2])

\* the four magic numbers: a1b2c3d4, a1b23c4d, d4c3b2a1, 4d3cb2a1
MagicMicroBig == <<212, 195, 178, 161>>
MagicNanoBig == <<77, 60, 178, 161>>
MagicMicroLittle == <<161, 178, 195, 212>>
MagicNanoLittle == <<161, 178, 60, 77>>

PcapHeader_init(B, slice, magic_number) ==
    Ok([header |->
          [magic_number |-> magic_number,
           version_major |-> read_u16(B, slice),
           version_minor |-> read_u16(B, Drop(slice, 2)),
           ts_correction |-> read_i32(B, Drop(slice, 4)),
           ts_accuracy |-> NNorm(read_u32N(B, Drop(slice, 8))),
           snaplen |-> NNorm(read_u32N(B, Drop(slice, 12))),
           datalink |-> DataLink_from(NNorm(read_u32N(B, Drop(slice, 16))))],
        rem |-> Drop(slice, 20)])

\* from_reader that reads the fields of every file as big-endian
PcapHeader_from_reader_big(slice) ==
    With(NNorm(read_u32N("Big", slice)), LAMBDA magic_number :
        IF magic_number \in {MagicMicroBig, MagicNanoBig, MagicMicroLittle, MagicNanoLittle}
        THEN PcapHeader_init("Big", Drop(slice, 4), magic_number)
        ELSE Err("InvalidField"))

PcapHeader_from_reader(slice) ==
    With(NNorm(read_u32N("Big", slice)), LAMBDA magic_number :
        IF magic_number \in {MagicMicroBig, MagicNanoBig}
        THEN PcapHeader_init("Big", Drop(slice, 4), magic_number)
        ELSE IF magic_number \in {MagicMicroLittle, MagicNanoLittle}
        THEN PcapHeader_init("Little", Drop(slice, 4), magic_number)
        ELSE Err("InvalidField"))

PcapHeader_from_slice(slice) ==
    IF Len(slice) < 24 THEN Err("IncompleteBuffer") ELSE PcapHeader_from_reader(slice)

PcapHeader_endianness(h) ==
    IF h.magic_number \in {MagicMicroBig, MagicNanoBig} THEN "Big"
    ELSE IF h.magic_number \in {MagicMicroLittle, MagicNanoLittle} THEN "Little"
    ELSE "unreachable"

PcapHeader_ts_resolution(h) ==
    IF h.magic_number \in {MagicMicroBig, MagicMicroLittle} THEN "MicroSecond"
    ELSE IF h.magic_number \in {MagicNanoBig, MagicNanoLittle} THEN "NanoSecond"
    ELSE "unreachable"

\* the magic number is always written big-endian
PcapHeader_write_to(B, h) ==
    write_u32N("Big", h.magic_number)
      \o write_u16(B, h.version_major)
      \o write_u16(B, h.version_minor)
      \o write_i32(B, h.ts_correction)
      \o write_u32N(B, h.ts_accuracy)
      \o write_u32N(B, h.snaplen)
      \o write_u32N(B, DataLink_into(h.datalink))

\* a Duration is its nanoseconds, as everywhere in this module
NanosPerSec == NFromInt(1000000000)
Duration_new(secs, nanos) == NAdd(NMul(secs, NanosPerSec), nanos)
Duration_as_secs(d) == NDiv(d, 1000000000)
Duration_subsec_nanos(d) == NFromInt(NMod(d, 1000000000))

RawPcapPacket_from_slice(B, slice) ==
    IF Len(slice) < 16
    THEN Err("IncompleteBuffer")
    ELSE With(NNorm(read_u32N(B, Drop(slice, 8))), LAMBDA incl_len :
           IF NLess(NFromInt(Len(slice) - 16), incl_len)
           THEN Err("IncompleteBuffer")
           ELSE Ok([rem |-> Drop(slice, 16 + NToInt(incl_len)),
                    packet |->
                      [ts_sec |-> NNorm(read_u32N(B, slice)),
                       ts_frac |-> NNorm(read_u32N(B, Drop(slice, 4))),
                       incl_len |-> incl_len,
                       orig_len |-> NNorm(read_u32N(B, Drop(slice, 12))),
                       data |-> SubSeq(slice, 17, 16 + NToInt(incl_len))]]))

RawPcapPacket_write_to(B, raw) ==
    write_u32N(B, raw.ts_sec)
      \o write_u32N(B, raw.ts_frac)
      \o write_u32N(B, raw.incl_len)
      \o write_u32N(B, raw.orig_len)
      \o raw.data

\* try_from_raw_packet that takes the fraction of every file for nanoseconds
try_from_raw_packet_unscaled(raw, ts_res, snap_len) ==
    IF ~NLess(raw.ts_frac, NanosPerSec) THEN Err("InvalidField")
    ELSE IF NLess(snap_len, raw.incl_len) THEN Err("InvalidField")
    ELSE IF NLess(raw.orig_len, raw.incl_len) THEN Err("InvalidField")
    ELSE Ok([timestamp |-> Duration_new(raw.ts_sec, raw.ts_frac),
             orig_len |-> raw.orig_len,
             data |-> raw.data])

try_from_raw_packet(raw, ts_res, snap_len) ==
    With(IF ts_res = "MicroSecond"
         THEN NMul(raw.ts_frac, NFromInt(1000))
         ELSE raw.ts_frac, LAMBDA ts_nsec :
        IF ~NLess(ts_nsec, N2p32) THEN Err("InvalidField")
        ELSE IF ~NLess(ts_nsec, NanosPerSec) THEN Err("InvalidField")
        ELSE IF NLess(snap_len, raw.incl_len) THEN Err("InvalidField")
        ELSE IF NLess(raw.orig_len, raw.incl_len) THEN Err("InvalidField")
        ELSE Ok([timestamp |-> Duration_new(raw.ts_sec, ts_nsec),
                 orig_len |-> raw.orig_len,
                 data |-> raw.data]))

\* build_raw_header without the division of the fraction
build_raw_header_nanos(pkt, ts_res) ==
    With(Duration_as_secs(pkt.timestamp), LAMBDA ts_sec :
        IF ~NLess(ts_sec, N2p32)
        THEN Panic
        ELSE Ok([ts_sec |-> ts_sec,
                 ts_frac |-> Duration_subsec_nanos(pkt.timestamp),
                 incl_len |-> NFromInt(Len(pkt.data)),
                 orig_len |-> pkt.orig_len]))

build_raw_header(pkt, ts_res) ==
    With(Duration_as_secs(pkt.timestamp), LAMBDA ts_sec :
        IF ~NLess(ts_sec, N2p32)
        THEN Panic
        ELSE Ok([ts_sec |-> ts_sec,
                 ts_frac |->
                   IF ts_res = "MicroSecond"
                   THEN NDiv(Duration_subsec_nanos(pkt.timestamp), 1000)
                   ELSE Duration_subsec_nanos(pkt.timestamp),
                 incl_len |-> NFromInt(Len(pkt.data)),
                 orig_len |-> pkt.orig_len]))

as_raw_packet(pkt, ts_res) ==
    With(build_raw_header(pkt, ts_res), LAMBDA h :
        IF h.tag = "Panic"
        THEN Panic
        ELSE Ok([ts_sec |-> h.val.ts_sec, ts_frac |-> h.val.ts_frac,
                 incl_len |-> h.val.incl_len, orig_len |-> h.val.orig_len,
                 data |-> pkt.data]))

\* the raw packet at the head of the slice
PcapParser_next_raw_packet(header, slice) ==
    RawPcapPacket_from_slice(PcapHeader_endianness(header), slice)

\* the validated packet at the head of the slice
PcapParser_next_packet(header, slice) ==
    With(PcapParser_next_raw_packet(header, slice), LAMBDA r :
        IF r.tag = "Err"
        THEN r
        ELSE With(try_from_raw_packet(r.val.packet, PcapHeader_ts_resolution(header),
                                      header.snaplen), LAMBDA p :
               IF p.tag = "Err" THEN p ELSE Ok([rem |-> r.val.rem, packet |-> p.val])))

\* the writer holds the header; the sink is a Vec
PcapWriter_with_header(header, snk) ==
    snk \o PcapHeader_write_to(PcapHeader_endianness(header), header)

PcapWriter_write_raw_packet(header, snk, raw) ==
    Ok(snk \o RawPcapPacket_write_to(PcapHeader_endianness(header), raw))

PcapWriter_write_packet(header, snk, pkt) ==
    With(as_raw_packet(pkt, PcapHeader_ts_resolution(header)), LAMBDA raw :
        IF raw.tag = "Panic" THEN Panic
        ELSE PcapWriter_write_raw_packet(header, snk, raw.val))

\* the most packets a classic stream is given
MaxPackets == 2

\* header fields: the two samples of the format's description, and a header
\* with wide fields
PcapHeaderFields ==
    {[magic_number |-> m, version_major |-> 2, version_minor |-> 4,
      ts_correction |-> 0, ts_accuracy |-> <<>>, snaplen |-> <<4>>,
      datalink |-> <<1>>] : m \in {MagicMicroBig, MagicNanoBig,
                                   MagicMicroLittle, MagicNanoLittle}}
    \cup
    {[magic_number |-> m, version_major |-> 513, version_minor |-> 0,
      ts_correction |-> -3600, ts_accuracy |-> <<7, 0, 0, 128>>,
      snaplen |-> <<255, 255, 255, 255>>,
      datalink |-> d] : m \in {MagicMicroBig, MagicNanoLittle},
                        d \in {<<2>>, <<12, 1>>}}

\* packet records: 0x4FA11B29 s and 152_630 ticks; u32::MAX s and 999_999
\* ticks; 999_999_999 ticks; a truncated packet
PcapRecordFields ==
    {[ts_sec |-> <<41, 27, 161, 79>>, ts_frac |-> <<54, 84, 2>>,
      orig_len |-> <<3>>, data |-> <<1, 2, 3>>],
     [ts_sec |-> <<255, 255, 255, 255>>, ts_frac |-> <<63, 66, 15>>,
      orig_len |-> <<255, 255, 255, 255>>, data |-> <<>>],
     [ts_sec |-> <<>>, ts_frac |-> <<255, 201, 154, 59>>,
      orig_len |-> <<5>>, data |-> <<9, 9, 9, 9, 9>>],
     [ts_sec |-> <<1>>, ts_frac |-> <<>>,
      orig_len |-> <<98>>, data |-> <<7>>]}

\* the validation rules of a packet record: included <= snaplen, included <=
\* original, and a fraction below one second in the unit of the header
WellFormedRecord(h, rec) ==
    /\ NLeq(NFromInt(Len(rec.data)), h.snaplen)
    /\ NLeq(NFromInt(Len(rec.data)), rec.orig_len)
    /\ NLess(rec.ts_frac,
             IF h.magic_number \in {MagicMicroBig, MagicMicroLittle}
             THEN NFromInt(1000000) ELSE NFromInt(1000000000))

WireEndianness(h) ==
    IF h.magic_number \in {MagicMicroBig, MagicNanoBig} THEN "Big" ELSE "Little"

\* the bytes of a header and of a record, as the format lays them out
HeaderBytes(h) ==
    Reverse(h.magic_number)
      \o write_u16(WireEndianness(h), h.version_major)
      \o write_u16(WireEndianness(h), h.version_minor)
      \o write_i32(WireEndianness(h), h.ts_correction)
      \o write_u32N(WireEndianness(h), h.ts_accuracy)
      \o write_u32N(WireEndianness(h), h.snaplen)
      \o write_u32N(WireEndianness(h), h.datalink)

RecordBytes(h, rec) ==
    write_u32N(WireEndianness(h), rec.ts_sec)
      \o write_u32N(WireEndianness(h), rec.ts_frac)
      \o write_u32N(WireEndianness(h), NFromInt(Len(rec.data)))
      \o write_u32N(WireEndianness(h), rec.orig_len)
      \o rec.data

RECURSIVE RecordsBytes(_, _)
RecordsBytes(h, recs) ==
    IF recs = <<>> THEN <<>> ELSE RecordBytes(h, Head(recs)) \o RecordsBytes(h, Tail(recs))

RECURSIVE RecordSeqs(_, _)
RecordSeqs(h, n) ==
    IF n = 0
    THEN {<<>>}
    ELSE RecordSeqs(h, n - 1)
           \cup {Append(s, rec) : s \in {t \in RecordSeqs(h, n - 1) : Len(t) = n - 1},
                                  rec \in {r \in PcapRecordFields : WellFormedRecord(h, r)}}

\* PcapReader::new on the stream, then PcapWriter::with_header with its header
InitPcap ==
    /\ component = "pcap"
    /\ \E h \in PcapHeaderFields : \E recs \in RecordSeqs(h, MaxPackets) :
         \E bytes \in {HeaderBytes(h) \o RecordsBytes(h, recs)} :
         \E r \in {PcapHeader_from_slice(bytes)} :
           /\ r.tag = "Ok"
           /\ pcap_input = bytes
           /\ pcap_header = r.val.header
           /\ pcap_src = r.val.rem
           /\ pcap_sink = PcapWriter_with_header(r.val.header, <<>>)
           /\ pcap_log = <<>>
    /\ IdleState /\ IdleParser /\ IdleReader /\ IdleWriter

PcapLive ==
    /\ component = "pcap"
    /\ pcap_src # <<>>
    /\ \A i \in 1..Len(pcap_log) : pcap_log[i].res.tag = "Ok"

\* next_packet, then write_packet
PcapCopyPacket ==
    /\ PcapLive
    /\ \E r \in {PcapParser_next_packet(pcap_header, pcap_src)} :
         IF r.tag # "Ok"
         THEN /\ pcap_log' = Append(pcap_log, [path |-> "packet", res |-> r])
              /\ UNCHANGED <<pcap_src, pcap_sink>>
         ELSE \E w \in {PcapWriter_write_packet(pcap_header, pcap_sink, r.val.packet)} :
                /\ pcap_src' = r.val.rem
                /\ pcap_sink' = IF w.tag = "Ok" THEN w.val ELSE pcap_sink
                /\ pcap_log' = Append(pcap_log,
                     [path |-> "packet",
                      res |-> IF w.tag = "Ok" THEN Ok(r.val.packet) ELSE w])
    /\ UNCHANGED <<component, stateVars, parserVars, readerVars, writerVars,
                   pcap_input, pcap_header>>

\* next_raw_packet, then write_raw_packet
PcapCopyRawPacket ==
    /\ PcapLive
    /\ \E r \in {PcapParser_next_raw_packet(pcap_header, pcap_src)} :
         IF r.tag # "Ok"
         THEN /\ pcap_log' = Append(pcap_log, [path |-> "raw", res |-> r])
              /\ UNCHANGED <<pcap_src, pcap_sink>>
         ELSE \E w \in {PcapWriter_write_raw_packet(pcap_header, pcap_sink, r.val.packet)} :
                /\ pcap_src' = r.val.rem
                /\ pcap_sink' = w.val
                /\ pcap_log' = Append(pcap_log, [path |-> "raw", res |-> Ok(r.val.packet)])
    /\ UNCHANGED <<component, stateVars, parserVars, readerVars, writerVars,
                   pcap_input, pcap_header>>

NextPcap == PcapCopyPacket \/ PcapCopyRawPacket

SpecPcap == InitPcap /\ [][NextPcap]_vars

\* ------------------------------------------------------------------------
\* if_tsresol: the state, the parser and the writer given Interface
\* Description Blocks with every kind of resolution byte
\* ------------------------------------------------------------------------

\* decimal 0, 6, 9, 10, 127 and binary 0, 3, 30, 31, 127
TsResolBytes == {0, 6, 9, 10, 127, 128, 131, 158, 159, 255}

TsResolIdbs == {IdbDefault} \cup {IdbResol(b) : b \in TsResolBytes}

InitTsResol == InitState \/ InitParser \/ InitWriter

NextTsResol ==
    \/ \E block \in TsResolIdbs : StateUpdateFromBlock(block)
    \/ \E block \in TsResolIdbs : StateUpdateFromRawBlock(block)
    \/ \E blk \in TsResolIdbs : ParserNextBlock(blk)
    \/ \E blk \in TsResolIdbs : ParserNextRawBlock(blk)
    \/ \E block \in TsResolIdbs : WriterWriteBlock(block)

SpecTsResol == InitTsResol /\ [][NextTsResol]_vars

\* ------------------------------------------------------------------------
\* Framing: RawBlock::from_slice, Block::from_slice and PcapNgParser::new on
\* a buffer that holds a block, a part of one, or a damaged one
\* ------------------------------------------------------------------------

\* an if_tzone option of one byte, and a custom binary option too short for
\* its enterprise number
IdbTzone == InterfaceDescriptionBlock(<<UnknownOption(10, <<5>>)>>)
IdbCustomShort == InterfaceDescriptionBlock(<<UnknownOption(2989, <<1, 2>>)>>)

FramingBlocks ==
    {SectionHeaderBlock("Big"), SectionHeaderBlock("Little"), IdbDefault, IdbResol(6),
     IdbTzone, IdbCustomShort, InputEpb(0, <<1>>, <<1, 2, 3>>),
     UnknownBlock(7, 16, <<1, 2, 3, 4>>)}

\* the bytes of a block with another leading length, trailing length or
\* byte-order magic
WithLength(B, bytes, n) == Take(bytes, 4) \o write_u32(B, n) \o Drop(bytes, 8)
WithTrailer(B, bytes, n) == Take(bytes, Len(bytes) - 4) \o write_u32(B, n)
WithMagic(bytes, magic) == Take(bytes, 8) \o magic \o Drop(bytes, 12)

\* the byte order a block of the stream is written in
OrderOf(B, blk) == IF blk.kind = "SectionHeader" THEN blk.endianness ELSE B

FramingSlicesOf(B, blk) ==
    With(Encoded(B, blk), LAMBDA bytes :
        {Take(bytes \o NextBytes, n) :
            n \in {0, 8, 11, 12, Len(bytes) - 1, Len(bytes), Len(bytes) + 3}}
        \cup {WithLength(OrderOf(B, blk), bytes, l) \o NextBytes :
                l \in {8, 13, 14, Len(bytes) - 4, Len(bytes) + 4}}
        \cup {WithTrailer(OrderOf(B, blk), bytes, Len(bytes) + 4) \o NextBytes}
        \cup (IF blk.kind = "SectionHeader"
              THEN {WithMagic(bytes, <<1, 2, 3, 4>>) \o NextBytes,
                    WithMagic(WithLength(OrderOf(B, blk), bytes, 14), <<1, 2, 3, 4>>)}
              ELSE {}))

InitFraming ==
    /\ component = "framing"
    /\ parser \in Endianness
    /\ parser_input \in FramingBlocks
    /\ parser_src \in FramingSlicesOf(parser, parser_input)
    /\ parser_out = <<>>
    /\ IdleState /\ IdleReader /\ IdleWriter /\ IdlePcap

FramingLive == component = "framing" /\ parser_out = <<>>

FramingRawBlockFromSlice ==
    /\ FramingLive
    /\ parser_out' = <<[call |-> "RawBlock::from_slice",
                        res |-> RawBlock_from_slice(parser, parser_src)]>>
    /\ UNCHANGED <<component, parser, parser_input, parser_src,
                   stateVars, readerVars, writerVars, pcapVars>>

FramingBlockFromSlice ==
    /\ FramingLive
    /\ parser_out' = <<[call |-> "Block::from_slice",
                        res |-> Block_from_slice(parser, parser_src)]>>
    /\ UNCHANGED <<component, parser, parser_input, parser_src,
                   stateVars, readerVars, writerVars, pcapVars>>

FramingParserNew ==
    /\ FramingLive
    /\ parser_out' = <<[call |-> "PcapNgParser::new",
                        res |-> PcapNgParser_new(parser_src)]>>
    /\ UNCHANGED <<component, parser, parser_input, parser_src,
                   stateVars, readerVars, writerVars, pcapVars>>

NextFraming == FramingRawBlockFromSlice \/ FramingBlockFromSlice \/ FramingParserNew

SpecFraming == InitFraming /\ [][NextFraming]_vars

\* ------------------------------------------------------------------------
\* Byte order: streams whose sections change it, and Section Headers handed
\* to a parser of either byte order
\* ------------------------------------------------------------------------

EndianBlocks ==
    {SectionHeaderBlock("Big"), SectionHeaderBlock("Little"), IdbResol(6),
     InputEpb(0, <<1>>, <<1, 2, 3>>), UnknownBlock(7, 16, <<1, 2, 3, 4>>)}

InitEndianness == InitParser \/ InitFraming

NextEndianness ==
    \/ \E blk \in EndianBlocks : ParserNextBlock(blk)
    \/ \E blk \in EndianBlocks : ParserNextRawBlock(blk)
    \/ FramingRawBlockFromSlice
    \/ FramingBlockFromSlice
    \/ FramingParserNew

SpecEndianness == InitEndianness /\ [][NextEndianness]_vars

\* ------------------------------------------------------------------------
\* The first block: PcapNgParser::new on a slice and PcapNgReader::new on a
\* source that holds the same bytes
\* ------------------------------------------------------------------------

FramingReaderNew(c) ==
    /\ FramingLive
    /\ \E r \in {parse_with("new", PcapNgState_default, ReadBuffer_new, parser_src, c)} :
         /\ rb' = r.rb
         /\ source' = r.source
         /\ parser_out' =
              <<[call |-> "PcapNgReader::new",
                 res |-> IF r.res.tag = "Ok"
                         THEN Ok([rem |-> r.rb.data \o r.source, parser |-> r.parser])
                         ELSE r.res]>>
    /\ UNCHANGED <<component, parser, parser_input, parser_src,
                   stateVars, writerVars, pcapVars>>

NextFirstBlock ==
    \/ FramingParserNew
    \/ \E c \in ChunkSizes : FramingReaderNew(c)

SpecFirstBlock == InitFraming /\ [][NextFirstBlock]_vars

\* ------------------------------------------------------------------------
\* PcapNgReader at the end of the source: the source may end in the middle
\* of the last block
\* ------------------------------------------------------------------------

\* how many bytes of the last block the source lacks
MissingBytes == {0, 1, 5, 13}

InitReaderEof ==
    /\ component = "reader"
    /\ \E e \in Endianness, blocks \in ReaderStreams, c \in ChunkSizes, k \in MissingBytes :
         \E whole \in {StreamBytes(e, <<SectionHeaderBlock(e)>> \o blocks)} :
         \E bytes \in {Take(whole, Len(whole) - k)} :
         \E r \in {parse_with("new", PcapNgState_default, ReadBuffer_new, bytes, c)} :
           /\ parser = r.parser
           /\ rb = r.rb
           /\ source = r.source
           /\ parser_input = <<SectionHeaderBlock(e)>> \o blocks
           /\ parser_src = bytes
           /\ parser_out = <<[call |-> "new", res |-> r.res]>>
    /\ IdleState /\ IdleWriter /\ IdlePcap

SpecReaderEof == InitReaderEof /\ [][NextReader]_vars

\* ------------------------------------------------------------------------
\* PcapPacket::try_from_raw_packet on raw records of any content: the fields
\* of a RawPcapPacket are public and independent of one another
\* ------------------------------------------------------------------------

\* 999_999, 1_000_000, 4_294_967 (the last whose product by 1000 fits a
\* u32), 4_294_968, 999_999_999, 1_000_000_000 and u32::MAX
RawFractions ==
    {<<>>, <<63, 66, 15>>, <<64, 66, 15>>, <<183, 137, 65>>, <<184, 137, 65>>,
     <<255, 201, 154, 59>>, <<0, 202, 154, 59>>, <<255, 255, 255, 255>>}

RawPackets ==
    [ts_sec : {<<>>, <<255, 255, 255, 255>>},
     ts_frac : RawFractions,
     incl_len : {<<>>, <<3>>, <<5>>},
     orig_len : {<<>>, <<3>>, <<4>>, <<255, 255, 255, 255>>},
     data : {<<1, 2, 3>>}]

InitTryFrom ==
    /\ component = "packet"
    /\ pcap_input \in RawPackets
    /\ pcap_header \in [ts_resolution : {"MicroSecond", "NanoSecond"},
                        snaplen : {<<4>>, <<255, 255>>}]
    /\ pcap_src = "idle"
    /\ pcap_sink = "idle"
    /\ pcap_log = <<>>
    /\ IdleState /\ IdleParser /\ IdleReader /\ IdleWriter

TryFromRawPacket ==
    /\ component = "packet"
    /\ pcap_log = <<>>
    /\ pcap_log' = <<[path |-> "try_from_raw_packet",
                      res |-> try_from_raw_packet(pcap_input, pcap_header.ts_resolution,
                                                  pcap_header.snaplen)]>>
    /\ UNCHANGED <<component, stateVars, parserVars, readerVars, writerVars,
                   pcap_input, pcap_src, pcap_header, pcap_sink>>

SpecTryFrom == InitTryFrom /\ [][TryFromRawPacket]_vars

\* ------------------------------------------------------------------------
\* PcapHeader::from_slice on whole, short and foreign headers
\* ------------------------------------------------------------------------

\* c3d4a1b2 (a swapped-halves a1b2c3d4), the pcapng block type 0a0d0d0a,
\* zeroes, and a1b2c3d5
ForeignMagics == {<<195, 212, 161, 178>>, <<10, 13, 13, 10>>, <<0, 0, 0, 0>>,
                  <<161, 178, 195, 213>>}

HeaderSlicesOf(h) ==
    {Take(HeaderBytes(h) \o <<9, 9, 9>>, n) : n \in {0, 3, 4, 12, 23, 24, 27}}
    \cup {m \o Drop(HeaderBytes(h), 4) : m \in ForeignMagics}
    \cup {Take(m \o Drop(HeaderBytes(h), 4), 23) : m \in ForeignMagics}

InitHeader ==
    /\ component = "header"
    /\ pcap_header \in PcapHeaderFields
    /\ pcap_input \in HeaderSlicesOf(pcap_header)
    /\ pcap_src = "idle"
    /\ pcap_sink = "idle"
    /\ pcap_log = <<>>
    /\ IdleState /\ IdleParser /\ IdleReader /\ IdleWriter

\* from_slice, then endianness() and ts_resolution() of the header it gave
HeaderFromSlice ==
    /\ component = "header"
    /\ pcap_log = <<>>
    /\ \E r \in {PcapHeader_from_slice(pcap_input)} :
         pcap_log' =
           <<[path |-> "PcapHeader::from_slice", res |-> r,
              endianness |-> IF r.tag = "Ok" THEN PcapHeader_endianness(r.val.header)
                             ELSE "none",
              ts_resolution |-> IF r.tag = "Ok" THEN PcapHeader_ts_resolution(r.val.header)
                                ELSE "none"]>>
    /\ UNCHANGED <<component, stateVars, parserVars, readerVars, writerVars,
                   pcap_input, pcap_src, pcap_header, pcap_sink>>

SpecHeader == InitHeader /\ [][HeaderFromSlice]_vars

\* ------------------------------------------------------------------------
\* opts_from_slice on option lists with and without the end-of-options
\* option
\* ------------------------------------------------------------------------

\* the most options of a list
MaxOptions == 2

ListOptions ==
    {UnknownOption(code, value) :
        code \in {1, 2},
        value \in {<<>>, <<7>>, <<0, 0, 0, 0>>, <<1, 2, 3, 4, 5>>}}

RECURSIVE OptionLists(_)
OptionLists(n) ==
    IF n = 0 THEN {<<>>}
    ELSE OptionLists(n - 1)
           \cup {Append(l, o) : l \in {t \in OptionLists(n - 1) : Len(t) = n - 1},
                                o \in ListOptions}

\* what follows the options: nothing, the end-of-options option, the same
\* followed by the bytes of one more option, and a code 0 with a length
ListTails(B) ==
    {<<>>,
     write_u16(B, 0) \o write_u16(B, 0),
     write_u16(B, 0) \o write_u16(B, 0) \o write_opt_to(B, UnknownOption(3, <<8>>)),
     write_u16(B, 0) \o write_u16(B, 4) \o <<1, 1, 1, 1>>}

InitOptions ==
    /\ component = "options"
    /\ \E B \in Endianness, tail \in UNION {ListTails(E) : E \in Endianness} :
         /\ tail \in ListTails(B)
         /\ parser = [order |-> B, tail |-> tail]
         /\ parser_input \in OptionLists(MaxOptions)
         /\ parser_src = write_each_opt(B, parser_input) \o tail
    /\ parser_out = <<>>
    /\ IdleState /\ IdleReader /\ IdleWriter /\ IdlePcap

OptsFromSlice ==
    /\ component = "options"
    /\ parser_out = <<>>
    /\ parser_out' = <<[call |-> "opts_from_slice",
                        res |-> opts_from_slice("EnhancedPacket", parser.order, parser_src)]>>
    /\ UNCHANGED <<component, parser, parser_input, parser_src,
                   stateVars, readerVars, writerVars, pcapVars>>

SpecOptions == InitOptions /\ [][OptsFromSlice]_vars

\* ------------------------------------------------------------------------
\* Blocks of a type the library does not know: Block::from_slice, then
\* Block::write_to on the block it gave
\* ------------------------------------------------------------------------

\* codes that are none of 0x0A0D0D0A, 1..6, 9, 0xBAD and 0x40000BAD: 0, 7, 8,
\* 10, the byte-swapped codes of the Interface Description and Enhanced
\* Packet blocks, and 0x7FFFFFFF
ForeignTypes == {0, 7, 8, 10, 16777216, 100663296, 2147483647}

\* bodies of whole words; the third is the body of an Interface Description
ForeignBodies ==
    {<<>>, <<1, 2, 3, 4>>, <<0, 1, 0, 0, 0, 0, 255, 255>>,
     <<0, 0, 0, 0, 0, 0, 0, 0>>, [i \in 1..12 |-> i]}

\* the bytes of a block of byte order B, as the format lays them out
Framed(B, type_, body) ==
    write_u32(B, type_) \o write_u32(B, Len(body) + 12) \o body
      \o write_u32(B, Len(body) + 12)

InitForeign ==
    /\ component = "foreign"
    /\ parser \in Endianness
    /\ parser_input \in [type_ : ForeignTypes, body : ForeignBodies,
                         tail : {<<>>, NextBytes}]
    /\ parser_src = Framed(parser, parser_input.type_, parser_input.body)
                      \o parser_input.tail
    /\ parser_out = <<>>
    /\ IdleState /\ IdleReader /\ IdleWriter /\ IdlePcap

ForeignReadWrite ==
    /\ component = "foreign"
    /\ parser_out = <<>>
    /\ \E r \in {Block_from_slice(parser, parser_src)} :
         parser_out' =
           <<[call |-> "Block::from_slice", res |-> r,
              written |-> IF r.tag = "Ok" THEN Block_write_to(parser, r.val.block)
                          ELSE r]>>
    /\ UNCHANGED <<component, parser, parser_input, parser_src,
                   stateVars, readerVars, writerVars, pcapVars>>

SpecForeign == InitForeign /\ [][ForeignReadWrite]_vars

\* ------------------------------------------------------------------------
\* Raw and typed updates side by side: the state calls and the parser, on
\* blocks of every kind, an undecodable Interface Description included
\* ------------------------------------------------------------------------

RawUpdateBlocks ==
    {SectionHeaderBlock("Big"), SectionHeaderBlock("Little"), IdbDefault, IdbResol(10),
     IdbResolOffset(6, <<1>>), IdbTzone, InputEpb(0, <<1>>, <<1, 2, 3>>),
     UnknownBlock(7, 16, <<1, 2, 3, 4>>)}

\* the blocks of the parser's streams
RawUpdateStream ==
    {SectionHeaderBlock("Little"), IdbResolOffset(6, <<1>>), IdbTzone,
     InputEpb(0, <<1>>, <<1, 2, 3>>)}

NextRawUpdate ==
    \/ \E block \in RawUpdateBlocks : StateUpdateFromBlock(block)
    \/ \E block \in RawUpdateBlocks : StateUpdateFromRawBlock(block)
    \/ \E blk \in RawUpdateStream : ParserNextBlock(blk)
    \/ \E blk \in RawUpdateStream : ParserNextRawBlock(blk)

SpecRawUpdate == InitSections /\ [][NextRawUpdate]_vars

\* ------------------------------------------------------------------------
\* Prefixes: every prefix of the bytes of a block, the whole block included
\* ------------------------------------------------------------------------

PrefixesOf(B, blk) ==
    {Take(Encoded(B, blk), n) : n \in 0..Len(Encoded(B, blk))}

InitPrefix ==
    /\ component = "framing"
    /\ parser \in Endianness
    /\ parser_input \in FramingBlocks \cup {UnknownBlock(8, 12, <<>>)}
    /\ parser_src \in PrefixesOf(parser, parser_input)
    /\ parser_out = <<>>
    /\ IdleState /\ IdleReader /\ IdleWriter /\ IdlePcap

NextPrefix == FramingRawBlockFromSlice \/ FramingBlockFromSlice

SpecPrefix == InitPrefix /\ [][NextPrefix]_vars

\* ------------------------------------------------------------------------
\* PcapNgReader after an error: the caller calls next_block again
\* ------------------------------------------------------------------------

\* blocks the parser rejects: an if_tsresol of 10, a packet of an interface
\* that was not described, a trailing length that differs, a leading length
\* of 13
RejectedBytes(B) ==
    {Encoded(B, IdbResol(10)),
     Encoded(B, InputEpb(1, <<1>>, <<>>)),
     WithTrailer(B, Encoded(B, IdbDefault), 24),
     WithLength(B, Encoded(B, IdbDefault), 13)}

\* PcapNgReader::new on a source that holds a Section Header, at most one
\* Interface Description, a rejected block and one more block
InitReaderRejecting ==
    /\ component = "reader"
    /\ \E e \in Endianness, good \in {<<>>, <<IdbDefault>>}, c \in ChunkSizes :
         \E bad \in RejectedBytes(e) :
         \E bytes \in {StreamBytes(e, <<SectionHeaderBlock(e)>> \o good) \o bad
                         \o Encoded(e, IdbDefault)} :
         \E r \in {parse_with("new", PcapNgState_default, ReadBuffer_new, bytes, c)} :
           /\ parser = r.parser
           /\ rb = r.rb
           /\ source = r.source
           /\ parser_input = <<SectionHeaderBlock(e)>> \o good
           /\ parser_src = bytes
           /\ parser_out = <<[call |-> "new", res |-> r.res]>>
    /\ IdleState /\ IdleWriter /\ IdlePcap

\* next_block called although the last call returned an error
ReaderNextBlockAgain(c) ==
    /\ component = "reader"
    /\ parser_out[Len(parser_out)].res.tag = "Err"
    /\ Len(parser_out) < MaxBlocks
    /\ \E r \in {PcapNgReader_next("next_block", parser, rb, source, c)} :
         /\ parser' = r.parser
         /\ rb' = r.rb
         /\ source' = r.source
         /\ parser_out' = Append(parser_out, [call |-> "next_block", res |-> r.res])
    /\ UNCHANGED <<component, parser_input, parser_src, stateVars, writerVars, pcapVars>>

NextReaderRejecting ==
    \/ \E c \in ChunkSizes : ReaderNextBlock(c)
    \/ \E c \in ChunkSizes : ReaderNextBlockAgain(c)

SpecReaderRejecting == InitReaderRejecting /\ [][NextReaderRejecting]_vars

\* ------------------------------------------------------------------------
\* The tables of the state, the parser and the writer, over sections,
\* interfaces accepted and rejected, and packets
\* ------------------------------------------------------------------------

TableBlocks ==
    {SectionHeaderBlock("Little"), IdbDefault, IdbResol(10), IdbResol(159),
     IdbResolOffset(6, <<1>>), InputEpb(0, <<1>>, <<1, 2, 3>>)}

NextTables ==
    \/ \E block \in TableBlocks : StateUpdateFromBlock(block)
    \/ \E block \in TableBlocks : StateUpdateFromRawBlock(block)
    \/ \E blk \in TableBlocks : ParserNextBlock(blk)
    \/ \E blk \in TableBlocks : ParserNextRawBlock(blk)
    \/ \E block \in TableBlocks : WriterWriteBlock(block)

SpecTables == InitTsResol /\ [][NextTables]_vars

\* ------------------------------------------------------------------------
\* ReadBuffer on its own (read_buffer.rs): the Vec of BUF_SIZE bytes, pos and
\* len, with any source and any parser.  A read is an error or a number of
\* bytes, at most the room it was given; a parser answers IncompleteBuffer,
\* another error, or Ok with a remainder that is a part of the slice it was
\* given.
\* ------------------------------------------------------------------------

\* the most operations made on a buffer
MaxOps == 3

ReadBuffer_new_vec == [buf |-> Zeros(BUF_SIZE), pos |-> 0, len |-> 0]

\* buffer(): buffer[pos..len]
ReadBuffer_buffer(b) == SubSeq(b.buf, b.pos + 1, b.len)

\* the bytes a read of n bytes stores: the source counts its bytes
SourceBytes(from, n) == [i \in 1..n |-> (from + i) % 256]

\* what a read asked for `want` bytes (0 = nothing, -1 = an error, 99 = all
\* the room) gives in a room of `room` bytes
ReadOutcomes == {-1, 0, 1, 7, 99}
ReadCount(want, room) == IF want = 99 THEN room ELSE Min(want, room)

\* fill_buf that leaves pos where it was
ReadBuffer_fill_buf_unreset(b, src, want) ==
    LET rem_len == b.len - b.pos
        moved == ReadBuffer_buffer(b) \o SubSeq(b.buf, rem_len + 1, BUF_SIZE)
    IN  IF want = -1
        THEN [res |-> Err("IoError"), rb |-> [b EXCEPT !.buf = moved], source |-> src]
        ELSE LET nb_read == ReadCount(want, BUF_SIZE - rem_len)
             IN  [res |-> Ok(nb_read),
                  rb |-> [buf |-> SubSeq(moved, 1, rem_len) \o SourceBytes(src, nb_read)
                                    \o SubSeq(moved, rem_len + nb_read + 1, BUF_SIZE),
                          pos |-> b.pos, len |-> rem_len + nb_read],
                  source |-> src + nb_read]

\* fill_buf: the unread bytes are copied to the front, then the read; a read
\* error returns before pos and len are set
ReadBuffer_fill_buf(b, src, want) ==
    LET rem_len == b.len - b.pos
        moved == ReadBuffer_buffer(b) \o SubSeq(b.buf, rem_len + 1, BUF_SIZE)
    IN  IF want = -1
        THEN [res |-> Err("IoError"), rb |-> [b EXCEPT !.buf = moved], source |-> src]
        ELSE LET nb_read == ReadCount(want, BUF_SIZE - rem_len)
             IN  [res |-> Ok(nb_read),
                  rb |-> [buf |-> SubSeq(moved, 1, rem_len) \o SourceBytes(src, nb_read)
                                    \o SubSeq(moved, rem_len + nb_read + 1, BUF_SIZE),
                          pos |-> 0, len |-> rem_len + nb_read],
                  source |-> src + nb_read]

\* advance_raw: diff_len is the offset of the slice in the Vec; the two
\* assertions panic
ReadBuffer_advance_raw(b, diff_len, slice_len) ==
    IF diff_len > b.len \/ diff_len + slice_len > b.len THEN Panic
    ELSE Ok([b EXCEPT !.pos = diff_len, !.len = diff_len + slice_len])

\* the remainders a parser may return from a slice of n bytes, as offset and
\* length in the slice: all of it, its end, all but the first byte, a part
\* that stops before the end, and nothing at its start
Remainders == {"all", "end", "tail", "middle", "start"}
RemainderOffset(r, n) ==
    CASE r = "all" -> 0 [] r = "end" -> n [] r = "start" -> 0 [] OTHER -> Min(1, n)
RemainderLen(r, n) ==
    CASE r = "all" -> n [] r = "end" -> 0 [] r = "start" -> 0
      [] r = "tail" -> n - Min(1, n)
      [] OTHER -> IF n >= 2 THEN n - 2 ELSE 0

\* advance(rem)
ReadBuffer_advance(b, r) ==
    ReadBuffer_advance_raw(b, b.pos + RemainderOffset(r, b.len - b.pos),
                           RemainderLen(r, b.len - b.pos))

\* parse_with: each turn of the loop takes the next answer of the parser and,
\* when it is IncompleteBuffer, the next read of the source; a script that
\* ends leaves a parser that rejects
ParserAnswers == {"IncompleteBuffer", "InvalidField"} \cup Remainders

RECURSIVE ReadBuffer_parse_with(_, _, _)
ReadBuffer_parse_with(b, src, script) ==
    IF script = <<>> THEN [res |-> Err("InvalidField"), rb |-> b, source |-> src]
    ELSE With(Head(script), LAMBDA turn :
        IF turn.parser \in Remainders
        THEN With(ReadBuffer_advance(b, turn.parser), LAMBDA a :
                 IF a.tag = "Panic" THEN [res |-> Panic, rb |-> b, source |-> src]
                 ELSE [res |-> Ok("value"), rb |-> a.val, source |-> src])
        ELSE IF turn.parser = "IncompleteBuffer"
        THEN With(ReadBuffer_fill_buf(b, src, turn.read), LAMBDA f :
                 IF f.res.tag = "Err" THEN f
                 ELSE IF f.res.val = 0
                 THEN [res |-> Err("IoError(UnexpectedEof)"), rb |-> f.rb,
                       source |-> f.source]
                 ELSE ReadBuffer_parse_with(f.rb, f.source, Tail(script)))
        ELSE [res |-> Err(turn.parser), rb |-> b, source |-> src])

ReadBuffer_is_empty(b, src, want) ==
    IF b.pos = b.len
    THEN With(ReadBuffer_fill_buf(b, src, want), LAMBDA f :
             IF f.res.tag = "Err" THEN f
             ELSE [res |-> Ok(f.res.val = 0), rb |-> f.rb, source |-> f.source])
    ELSE [res |-> Ok(FALSE), rb |-> b, source |-> src]

\* the scripts of parse_with: at most two refills, then any answer
ParseScripts ==
    LET turns == [parser : ParserAnswers, read : ReadOutcomes]
        refills == {t \in turns : t.parser = "IncompleteBuffer"}
        last == {t \in turns : t.read = 0}
    IN  {<<t>> : t \in last \cup refills}
          \cup {<<r, t>> : r \in refills, t \in last \cup refills}
          \cup {<<r, s, t>> : r \in {x \in refills : x.read = 7},
                              s \in {x \in refills : x.read = 99}, t \in last}

\* ReadBuffer::new: parser_input counts the operations, parser_out holds the
\* last one
InitBuffer ==
    /\ component = "buffer"
    /\ rb = ReadBuffer_new_vec
    /\ source = 0
    /\ parser = "idle"
    /\ parser_input = 0
    /\ parser_src = "idle"
    /\ parser_out = [op |-> "new", res |-> Ok("unit")]
    /\ IdleState /\ IdleWriter /\ IdlePcap

BufferLive ==
    /\ component = "buffer"
    /\ parser_input < MaxOps
    /\ parser_out.res.tag # "Panic"

BufferDone(op, r) ==
    /\ rb' = r.rb
    /\ source' = r.source
    /\ parser_input' = parser_input + 1
    /\ parser_out' = [op |-> op, res |-> r.res]
    /\ UNCHANGED <<component, parser, parser_src, stateVars, writerVars, pcapVars>>

BufferFillBuf(want) ==
    /\ BufferLive
    /\ \E r \in {ReadBuffer_fill_buf(rb, source, want)} : BufferDone("fill_buf", r)

BufferAdvance(rem) ==
    /\ BufferLive
    /\ \E a \in {ReadBuffer_advance(rb, rem)} :
         BufferDone("advance", [res |-> IF a.tag = "Panic" THEN Panic ELSE Ok("unit"),
                                rb |-> IF a.tag = "Panic" THEN rb ELSE a.val,
                                source |-> source])

BufferParseWith(script) ==
    /\ BufferLive
    /\ \E r \in {ReadBuffer_parse_with(rb, source, script)} : BufferDone("parse_with", r)

BufferIsEmpty(want) ==
    /\ BufferLive
    /\ \E r \in {ReadBuffer_is_empty(rb, source, want)} : BufferDone("is_empty", r)

NextBuffer ==
    \/ \E want \in ReadOutcomes : BufferFillBuf(want)
    \/ \E rem \in Remainders : BufferAdvance(rem)
    \/ \E script \in ParseScripts : BufferParseWith(script)
    \/ \E want \in ReadOutcomes : BufferIsEmpty(want)

SpecBuffer == InitBuffer /\ [][NextBuffer]_vars

\* ------------------------------------------------------------------------
\* Sections
\* ------------------------------------------------------------------------

\* the stream SHB1, IDB1, EPB(interface 0), SHB2, EPB(interface 0), every
\* block of it taken with next_block
SectionScenario ==
    /\ component = "parser"
    /\ Len(parser_input) = 5
    /\ parser_input[2] = IdbDefault
    /\ parser_input[3].kind = "EnhancedPacket" /\ parser_input[3].interface_id = 0
    /\ parser_input[4].kind = "SectionHeader"
    /\ parser_input[5].kind = "EnhancedPacket" /\ parser_input[5].interface_id = 0
    /\ \A i \in 2..5 : parser_out[i].call = "next_block"

\* C1: after a Section Header Block has been processed (update_from_block,
\* update_from_raw_block, next_block or next_raw_block returning Ok) the
\* interface table and the timestamp parameters are empty; and in the stream
\* SHB1, IDB1, EPB(0), SHB2, EPB(0) the first EPB is accepted and the second
\* is rejected with invalid-interface-id.
C1_SectionHeaderClearsTables ==
    /\ (/\ component = "state"
        /\ state_call.op \in {"update_from_block", "update_from_raw_block"}
        /\ state_call.kind = "SectionHeader")
       => /\ state_call.res.tag = "Ok"
          /\ state.interfaces = <<>>
          /\ state.ts_parameters = <<>>
    /\ (/\ component = "parser"
        /\ Len(parser_input) > 1
        /\ parser_input[Len(parser_input)].kind = "SectionHeader")
       => /\ parser_out[Len(parser_out)].res.tag = "Ok"
          /\ parser.section = parser_input[Len(parser_input)]
          /\ parser.interfaces = <<>>
          /\ parser.ts_resolutions = <<>>
    /\ SectionScenario
       => /\ parser_out[3].res.tag = "Ok"
          /\ parser_out[5].res = Err("InvalidInterfaceId")

\* the scenario has been read to its end
C1_Witness ==
    /\ SectionScenario
    /\ parser_out[5].res = Err("InvalidInterfaceId")

\* ------------------------------------------------------------------------
\* Timestamps: what the format says
\* ------------------------------------------------------------------------

\* An interface whose resolution is a power of ten (or absent): its tick is a
\* whole number of nanoseconds, 10^(9-n), 1000 when there is no if_tsresol.
RECURSIVE ResolByteOf(_)
ResolByteOf(opts) ==
    IF opts = <<>> THEN 6
    ELSE IF Head(opts).opt = "IfTsResol" THEN Head(opts).value
    ELSE ResolByteOf(Tail(opts))

IsDecimal(idb) == ResolByteOf(idb.options) <= 9
TickNanos(idb) == Pow(10, 9 - ResolByteOf(idb.options))

\* C3: the timestamp exposed for raw ticks on interface i is
\* raw_ticks * tick_length + ts_offset of the i-th interface of the section
\* (stated for the power-of-ten resolutions, the default included, and for
\* values a Duration can hold).
C3_ExposedTimestamp ==
    (/\ component = "state"
     /\ state_call.op = "decode_timestamp"
     /\ state_call.interface_id < Len(state.interfaces)
     /\ IsDecimal(state.interfaces[state_call.interface_id + 1])
     /\ NLess(NAdd(NMul(state_call.ts_raw,
                        NFromInt(TickNanos(state.interfaces[state_call.interface_id + 1]))),
                   ts_offset(state.interfaces[state_call.interface_id + 1])),
              DurationLimit))
    => /\ state_call.res.tag = "Ok"
       /\ state_call.res.val =
            NAdd(NMul(state_call.ts_raw,
                      NFromInt(TickNanos(state.interfaces[state_call.interface_id + 1]))),
                 ts_offset(state.interfaces[state_call.interface_id + 1]))

\* C4: for a power-of-ten resolution and a Duration d with d / tick <= 2^64-1,
\* encode_timestamp succeeds and decode_timestamp of its 8 bytes on the same
\* interface returns d - (d mod tick).
C4_TimestampRoundTrip ==
    /\ (/\ component = "state"
        /\ state_call.op = "encode_timestamp"
        /\ state_call.interface_id < Len(state.interfaces)
        /\ IsDecimal(state.interfaces[state_call.interface_id + 1])
        /\ NLess(NDiv(state_call.timestamp,
                      TickNanos(state.interfaces[state_call.interface_id + 1])), N2p64))
       => state_call.res.tag = "Ok"
    /\ (/\ component = "state"
        /\ state_call.op = "decode_timestamp"
        /\ state_call.from_encode
        /\ IsDecimal(state.interfaces[state_call.interface_id + 1]))
       => /\ state_call.res.tag = "Ok"
          /\ state_call.res.val =
               NSub(state_call.encoded,
                    NFromInt(NMod(state_call.encoded,
                                  TickNanos(state.interfaces[state_call.interface_id + 1]))))

\* ------------------------------------------------------------------------
\* Interface ids
\* ------------------------------------------------------------------------

\* the blocks of the write calls that returned Ok
RECURSIVE WrittenBlocks(_)
WrittenBlocks(log) ==
    IF log = <<>> THEN <<>>
    ELSE WrittenBlocks(SubSeq(log, 1, Len(log) - 1))
           \o (IF log[Len(log)].res.tag = "Ok" THEN <<log[Len(log)].block>> ELSE <<>>)

\* C2: an Enhanced Packet whose interface_id is at least the number of
\* Interface Description Blocks seen so far in the current section is
\* rejected with invalid-interface-id by next_block and by write_block, and
\* one whose interface_id is below that number is not rejected for this.
C2_InterfaceIdChecked ==
    /\ (/\ component = "parser"
        /\ parser_out[Len(parser_out)].call = "next_block"
        /\ parser_input[Len(parser_input)].kind = "EnhancedPacket")
       => (parser_out[Len(parser_out)].res = Err("InvalidInterfaceId")
             <=> parser_input[Len(parser_input)].interface_id
                   >= IdbsInSection(SubSeq(parser_input, 1, Len(parser_input) - 1)))
    /\ (/\ component = "writer"
        /\ writer_log[Len(writer_log)].call = "write_block"
        /\ writer_log[Len(writer_log)].block.kind = "EnhancedPacket")
       => (writer_log[Len(writer_log)].res = Err("InvalidInterfaceId")
             <=> writer_log[Len(writer_log)].block.interface_id
                   >= IdbsInSection(WrittenBlocks(SubSeq(writer_log, 1, Len(writer_log) - 1))))

\* ------------------------------------------------------------------------
\* Writer
\* ------------------------------------------------------------------------

\* C8: after write_raw_block of a Section Header the writer's section is the
\* new one and its interface table is empty; after write_raw_block of an
\* Interface Description Block, write_block of an Enhanced Packet on the
\* interface it describes is accepted.
C8_RawBlockUpdatesWriter ==
    component = "writer" =>
      /\ (/\ writer_log[Len(writer_log)].call = "write_raw_block"
          /\ writer_log[Len(writer_log)].block.kind = "SectionHeader"
          /\ writer_log[Len(writer_log)].res.tag = "Ok")
         => /\ writer.section = writer_log[Len(writer_log)].block
            /\ writer.interfaces = <<>>
            /\ writer.ts_resolutions = <<>>
      /\ (/\ Len(writer_log) > 2
          /\ writer_log[Len(writer_log) - 1].call = "write_raw_block"
          /\ writer_log[Len(writer_log) - 1].block.kind = "InterfaceDescription"
          /\ writer_log[Len(writer_log) - 1].res.tag = "Ok"
          /\ writer_log[Len(writer_log)].call = "write_block"
          /\ writer_log[Len(writer_log)].block.kind = "EnhancedPacket"
          /\ writer_log[Len(writer_log)].block.interface_id
               = writer_log[Len(writer_log) - 1].before)
         => writer_log[Len(writer_log)].res # Err("InvalidInterfaceId")

\* the bytes of the calls that returned Ok, in call order
RECURSIVE EmittedByOk(_)
EmittedByOk(log) ==
    IF log = <<>> THEN <<>>
    ELSE EmittedByOk(SubSeq(log, 1, Len(log) - 1))
           \o (IF log[Len(log)].res.tag = "Ok" THEN log[Len(log)].emitted ELSE <<>>)

\* C9: the constructor has written the Section Header, in its endianness, and
\* the sink always holds that header followed by the encodings of the blocks
\* written successfully, in call order, and nothing else.
C9_SinkIsHeaderThenBlocks ==
    (component = "writer" /\ writer_log[1].res.tag = "Ok") =>
      /\ writer_log[1].emitted
           = Encoded(writer_log[1].block.endianness, writer_log[1].block)
      /\ sink.data = EmittedByOk(writer_log)

\* C10: write_block of an Enhanced Packet on a known interface whose duration
\* in ticks of that interface exceeds 2^64-1 returns the timestamp-too-big
\* error as a value; a duration whose tick count fits is written as that
\* count, high 32 bits first.
C10_TimestampTooBigIsAnError ==
    (/\ component = "writer"
     /\ writer_log[Len(writer_log)].call = "write_block"
     /\ writer_log[Len(writer_log)].block.kind = "EnhancedPacket"
     /\ writer_log[Len(writer_log)].block.interface_id < Len(writer.interfaces)
     /\ writer_log[Len(writer_log)].res # Err("IoError"))
    => LET blk == writer_log[Len(writer_log)].block
           ticks == NDiv(blk.timestamp, TickNanos(writer.interfaces[blk.interface_id + 1]))
       IN  IF NLess(ticks, N2p64)
           THEN /\ writer_log[Len(writer_log)].res.tag = "Ok"
                /\ SubSeq(writer_log[Len(writer_log)].emitted, 13, 20)
                     = write_u32N(writer.section.endianness, Drop(NPad(ticks, 8), 4))
                         \o write_u32N(writer.section.endianness, Take(NPad(ticks, 8), 4))
           ELSE writer_log[Len(writer_log)].res = Err("TimestampTooBig")

\* ------------------------------------------------------------------------
\* Round trip
\* ------------------------------------------------------------------------

\* the results of the calls made on the input so far
ReadResults == [i \in 1..Len(parser_out) |-> parser_out[i].res]

\* C6: reading a well-formed stream block by block and passing each block to
\* write_block of a writer created with the stream's section header never
\* fails, and the stream written parses without error into the same number
\* of blocks, each equal to the block read at its place.
C6_ReadWriteRoundTrip ==
    component = "copy" =>
      /\ parser_out[Len(parser_out)].res.tag = "Ok"
      /\ writer_log[Len(writer_log)].res.tag = "Ok"
      /\ ParseAll(sink.data) = ReadResults

\* ------------------------------------------------------------------------
\* Reader and parser
\* ------------------------------------------------------------------------

\* the reader was asked for typed blocks only
OnlyNextBlock == \A i \in 2..Len(parser_out) : parser_out[i].call = "next_block"

\* what the reader returned before the end of the data
ReaderResults ==
    IF ReadResults[Len(ReadResults)].tag = "None"
    THEN SubSeq(ReadResults, 1, Len(ReadResults) - 1)
    ELSE ReadResults

\* C5: whatever the read chunks, the blocks next_block of the reader has
\* returned so far, the error included, are those PcapNgParser::next_block
\* returns on the whole stream in one buffer, and the reader is at its end
\* when the parser is.
C5_ReaderIsParser ==
    (component = "reader" /\ OnlyNextBlock) =>
      /\ Len(ReaderResults) <= Len(ParseAll(parser_src))
      /\ ReaderResults = SubSeq(ParseAll(parser_src), 1, Len(ReaderResults))
      /\ ReadResults[Len(ReadResults)].tag = "None"
           => ReaderResults = ParseAll(parser_src)

\* ------------------------------------------------------------------------
\* Round trip of a classic stream
\* ------------------------------------------------------------------------

\* C7: copying a well-formed classic stream packet by packet, each packet
\* through the validated path or through the raw path, never fails, and the
\* bytes written so far, followed by the bytes not yet read, are the stream:
\* at the end of the stream the copy is the stream byte for byte.
C7_ClassicRoundTrip ==
    component = "pcap" =>
      /\ \A i \in 1..Len(pcap_log) : pcap_log[i].res.tag = "Ok"
      /\ pcap_sink \o pcap_src = pcap_input

\* a microsecond stream of two packets copied to its end, the first, with a
\* fraction that is not zero, through the validated path and the second
\* through the raw path
C7_Witness ==
    /\ component = "pcap"
    /\ pcap_src = <<>>
    /\ Len(pcap_log) = 2
    /\ PcapHeader_ts_resolution(pcap_header) = "MicroSecond"
    /\ pcap_log[1].path = "packet"
    /\ pcap_log[1].res.tag = "Ok"
    /\ Duration_subsec_nanos(pcap_log[1].res.val.timestamp) # <<>>
    /\ pcap_log[2].path = "raw"
    /\ pcap_sink = pcap_input

\* ------------------------------------------------------------------------
\* Validation of if_tsresol
\* ------------------------------------------------------------------------

\* the bytes the format rejects: decimal exponent above 9, binary above 30
TsResolByteInvalid(b) ==
    \/ b < 128 /\ b > 9
    \/ b >= 128 /\ b - 128 > 30

IdbRejected(blk) == blk.options # <<>> /\ TsResolByteInvalid(blk.options[1].value)

\* what a call given the Interface Description Block blk must have done to a
\* table: nothing with the error, or one more interface with no such error
TsResolOutcome(blk, res, before, after) ==
    IF IdbRejected(blk)
    THEN res = Err("InvalidTsResolution") /\ after = before
    ELSE res # Err("InvalidTsResolution") /\ after.interfaces = Append(before.interfaces, blk)

C11_Step ==
    \A blk \in TsResolIdbs :
      /\ (StateUpdateFromBlock(blk) \/ StateUpdateFromRawBlock(blk))
           => /\ TsResolOutcome(blk, state_call'.res, state, state')
              /\ Len(state'.ts_parameters) = Len(state'.interfaces)
      /\ (ParserNextBlock(blk) \/ ParserNextRawBlock(blk))
           => /\ TsResolOutcome(blk, parser_out'[Len(parser_out')].res, parser, parser')
              /\ Len(parser'.ts_resolutions) = Len(parser'.interfaces)
      /\ WriterWriteBlock(blk)
           => /\ TsResolOutcome(blk, writer_log'[Len(writer_log')].res, writer, writer')
              /\ Len(writer'.ts_resolutions) = Len(writer'.interfaces)

C12_TickLengthDefined ==
    component = "state" =>
      /\ \A i \in 1..Len(state.ts_parameters) : to_nano_secs(state.ts_parameters[i][1]) > 0
      /\ state_call.op \in {"decode_timestamp", "encode_timestamp"}
           => state_call.res.tag # "Panic"

\* ------------------------------------------------------------------------
\* Framing
\* ------------------------------------------------------------------------

\* the byte order of the block at the head of a slice: that of its magic for
\* a Section Header, else the one in use
IsSectionHeader(slice) == SubSeq(slice, 1, 4) = <<10, 13, 13, 10>>
FrameOrder(B, slice) ==
    IF ~IsSectionHeader(slice) THEN B
    ELSE IF SubSeq(slice, 9, 12) = MagicBig THEN "Big"
    ELSE IF SubSeq(slice, 9, 12) = MagicLittle THEN "Little"
    ELSE "none"

\* the leading total length of the block at the head of a slice of 12 bytes
\* or more
DeclaredLength(B, slice) == read_u32(FrameOrder(B, slice), Drop(slice, 4))

\* the slice holds the whole block
FullyBuffered(B, slice) ==
    /\ Len(slice) >= 12
    /\ FrameOrder(B, slice) # "none" => Len(slice) >= DeclaredLength(B, slice)

\* C13: block parsing (RawBlock::from_slice, Block::from_slice) returns the
\* incomplete-buffer error only for a buffer that does not hold the whole
\* block; a fully buffered block is never answered with it.
C13_IncompleteOnlyWhenPartial ==
    (/\ component = "framing"
     /\ parser_out # <<>>
     /\ parser_out[1].call \in {"RawBlock::from_slice", "Block::from_slice"}
     /\ FullyBuffered(parser, parser_src))
    => parser_out[1].res # Err("IncompleteBuffer")

\* what RawBlock::from_slice must answer on a slice of 12 bytes or more whose
\* block has the leading length L, read in the byte order E: invalid-field
\* for a length that is not a multiple of 4 or is below 12 and, once L bytes
\* are buffered, for a trailing length that differs; otherwise, once L bytes
\* are buffered, the type, the length, the L-12 bytes of the body and the
\* remainder L bytes after the start of the block
FramedAs(B, E, slice, res) ==
    LET L == read_u32(E, Drop(slice, 4))
    IN  IF L % 4 # 0 \/ L < 12 THEN res = Err("InvalidField")
        ELSE Len(slice) >= L =>
               IF SubSeq(slice, L - 3, L) # SubSeq(slice, 5, 8)
               THEN res = Err("InvalidField")
               ELSE /\ res.tag = "Ok"
                    /\ res.val.block.type_ = read_u32(B, slice)
                    /\ res.val.block.initial_len = L
                    /\ res.val.block.body = SubSeq(slice, 9, L - 4)
                    /\ res.val.rem = Drop(slice, L)

OnRawBlockFromSlice ==
    /\ component = "framing"
    /\ parser_out # <<>>
    /\ parser_out[1].call = "RawBlock::from_slice"
    /\ Len(parser_src) >= 12

\* C14 as stated: the answer depends on the lengths alone, whatever the block
\* (a Section Header with no known magic has its length read in the byte
\* order in use).
C14_RawBlockFraming ==
    OnRawBlockFromSlice
    => FramedAs(parser,
                IF FrameOrder(parser, parser_src) = "none" THEN parser
                ELSE FrameOrder(parser, parser_src),
                parser_src, parser_out[1].res)

\* C14, amended: a Section Header Block whose byte-order magic is neither
\* 1A2B3C4D nor 4D3C2B1A is rejected with invalid-field whatever its lengths;
\* every other block is answered by its lengths as stated.
C14_RawBlockFramingAmended ==
    OnRawBlockFromSlice
    => IF FrameOrder(parser, parser_src) = "none"
       THEN parser_out[1].res = Err("InvalidField")
       ELSE FramedAs(parser, FrameOrder(parser, parser_src), parser_src, parser_out[1].res)

\* a whole Enhanced Packet Block followed by the start of the next block
C14_Witness ==
    /\ OnRawBlockFromSlice
    /\ parser_input.kind = "EnhancedPacket"
    /\ parser_src = Encoded(parser, parser_input) \o NextBytes
    /\ parser_out[1].res.tag = "Ok"
    /\ parser_out[1].res.val.rem = NextBytes

\* ------------------------------------------------------------------------
\* Byte order of a section
\* ------------------------------------------------------------------------

\* the byte order of the i-th block of a stream: that of the last Section
\* Header up to it
RECURSIVE SectionOrderAt(_, _)
SectionOrderAt(blocks, i) ==
    IF blocks[i].kind = "SectionHeader" THEN blocks[i].endianness
    ELSE SectionOrderAt(blocks, i - 1)

\* the raw block of the bytes, read off the wire layout
RawAsWritten(B, bytes) ==
    [type_ |-> read_u32(B, bytes), initial_len |-> Len(bytes),
     body |-> SubSeq(bytes, 9, Len(bytes) - 4), trailer_len |-> Len(bytes)]

DecodedAsWritten(blocks, i, r) ==
    /\ blocks[i].kind # "EnhancedPacket" => r.res.tag = "Ok"
    /\ r.res.tag = "Ok" =>
         IF r.call = "next_raw_block"
         THEN r.res.val = RawAsWritten(SectionOrderAt(blocks, i),
                                       Encoded(SectionOrderAt(blocks, i), blocks[i]))
         ELSE IF blocks[i].kind = "EnhancedPacket"
         THEN [r.res.val EXCEPT !.timestamp = blocks[i].timestamp] = blocks[i]
         ELSE r.res.val = blocks[i]

\* C15: in a stream where each block is written in the byte order of the
\* last Section Header before it, and each Section Header in its own, every
\* block is decoded as it was written, and the parser's section is the last
\* Section Header read, whatever the byte order before it.  A Section Header
\* handed to Block::from_slice or RawBlock::from_slice in either byte order
\* is decoded by its magic, and rejected when the magic is neither 1A2B3C4D
\* nor 4D3C2B1A.
C15_SectionEndianness ==
    /\ component = "parser" =>
         /\ \A i \in 1..Len(parser_out) : DecodedAsWritten(parser_input, i, parser_out[i])
         /\ parser_out[Len(parser_out)].res.tag = "Ok" =>
              parser.section.endianness = SectionOrderAt(parser_input, Len(parser_input))
    /\ (/\ component = "framing"
        /\ parser_out # <<>>
        /\ Len(parser_src) >= 12
        /\ IsSectionHeader(parser_src))
       => IF FrameOrder(parser, parser_src) = "none"
          THEN parser_out[1].res = Err("InvalidField")
          ELSE parser_src = Encoded(parser, parser_input) \o NextBytes =>
                 /\ parser_out[1].res.tag = "Ok"
                 /\ parser_out[1].call = "Block::from_slice" =>
                      parser_out[1].res.val.block = parser_input
                 /\ parser_out[1].call = "RawBlock::from_slice" =>
                      parser_out[1].res.val.block =
                        RawAsWritten(parser_input.endianness,
                                     Encoded(parser, parser_input))

\* a big-endian section, an interface, then a little-endian Section Header
\* and an interface read in the new byte order
C15_Witness ==
    /\ component = "parser"
    /\ Len(parser_input) = 4
    /\ parser_input[1].endianness = "Big"
    /\ parser_input[2] = IdbResol(6)
    /\ parser_input[3] = SectionHeaderBlock("Little")
    /\ parser_input[4] = IdbResol(6)
    /\ parser_out[4].res = Ok(IdbResol(6))
    /\ parser.section.endianness = "Little"

\* ------------------------------------------------------------------------
\* The first block of the input
\* ------------------------------------------------------------------------

\* the input starts with the whole, undamaged bytes of a Section Header
StartsWithSectionHeader ==
    /\ parser_input.kind = "SectionHeader"
    /\ Len(parser_src) >= Len(Encoded(parser, parser_input))
    /\ Take(parser_src, Len(Encoded(parser, parser_input))) = Encoded(parser, parser_input)

\* C16: PcapNgParser::new and PcapNgReader::new return an error whenever the
\* input does not start with a valid Section Header Block; when they succeed
\* the stored section is that block, no interface is known and the remainder
\* starts right after the block.
C16_NewNeedsSectionHeader ==
    (component = "framing" /\ parser_out # <<>>
       /\ parser_out[1].call \in {"PcapNgParser::new", "PcapNgReader::new"})
    => /\ ~StartsWithSectionHeader => parser_out[1].res.tag = "Err"
       /\ parser_out[1].res.tag = "Ok" =>
            /\ parser_out[1].res.val.parser.section = parser_input
            /\ parser_out[1].res.val.parser.interfaces = <<>>
            /\ parser_out[1].res.val.parser.ts_resolutions = <<>>
            /\ parser_out[1].res.val.rem =
                 Drop(parser_src, Len(Encoded(parser, parser_input)))

\* a reader created on a little-endian Section Header followed by more bytes
C16_Witness ==
    /\ component = "framing"
    /\ parser_out # <<>>
    /\ parser_out[1].call = "PcapNgReader::new"
    /\ parser_input = SectionHeaderBlock("Little")
    /\ parser_src = Encoded("Big", parser_input) \o NextBytes
    /\ parser_out[1].res.tag = "Ok"
    /\ parser_out[1].res.val.rem = NextBytes

\* ------------------------------------------------------------------------
\* The reader at the end of the source
\* ------------------------------------------------------------------------

\* the bytes the source lacks of the stream of parser_input
MissingAtEof ==
    Len(StreamBytes(parser_input[1].endianness, parser_input)) - Len(parser_src)

\* the source is at its end and what is buffered is the start of the last
\* block of the stream, cut short
PartialBlockAtEof ==
    /\ source = <<>>
    /\ rb.data # <<>>
    /\ MissingAtEof > 0
    /\ Len(rb.data) = Len(Encoded(parser.section.endianness,
                                  parser_input[Len(parser_input)])) - MissingAtEof

LastResult == parser_out'[Len(parser_out')].res

C17_Step ==
    \A c \in ChunkSizes :
        (ReaderNextBlock(c) \/ ReaderNextRawBlock(c)) =>
            /\ (LastResult.tag = "None") <=> (rb.data = <<>> /\ source = <<>>)
            /\ PartialBlockAtEof => LastResult = Err("IoError(UnexpectedEof)")

\* C17: next_block (and next_raw_block) return None exactly when no unread
\* byte is buffered and the source is at its end, so that the refill read
\* returns zero bytes; when the unread bytes are a block cut short by the end
\* of the source they return an UnexpectedEof error.
C17_NoneOnlyAtEndOfStream == [][C17_Step]_vars

\* a None after the last whole block of a stream read 6 bytes at a time
C17_Witness ==
    /\ component = "reader"
    /\ Len(parser_out) = 3
    /\ MissingAtEof = 0
    /\ parser_out[2].res = Ok(IdbDefault)
    /\ parser_out[3].res.tag = "None"
    /\ rb.data = <<>> /\ source = <<>>

\* ------------------------------------------------------------------------
\* Validation of a classic packet record
\* ------------------------------------------------------------------------

\* ticks per second, and nanoseconds per tick, of a classic file
TicksPerSecond(ts_res) ==
    IF ts_res = "MicroSecond" THEN NFromInt(1000000) ELSE NFromInt(1000000000)
NanosPerTick(ts_res) == IF ts_res = "MicroSecond" THEN NFromInt(1000) ELSE NFromInt(1)

RecordInvalid(raw, ts_res, snap_len) ==
    \/ NLess(snap_len, raw.incl_len)
    \/ NLess(raw.orig_len, raw.incl_len)
    \/ ~NLess(raw.ts_frac, TicksPerSecond(ts_res))

\* C18: try_from_raw_packet answers InvalidField exactly when the included
\* length exceeds the snaplen or the original length, or the fraction is not
\* below one second in the unit of the file; any other record gives a packet
\* whose timestamp is ts_sec seconds plus the fraction, with the original
\* length and the data of the record.
C18_RawPacketValidated ==
    (component = "packet" /\ pcap_log # <<>>) =>
        pcap_log[1].res =
          IF RecordInvalid(pcap_input, pcap_header.ts_resolution, pcap_header.snaplen)
          THEN Err("InvalidField")
          ELSE Ok([timestamp |->
                     NAdd(NMul(pcap_input.ts_sec, NFromInt(1000000000)),
                          NMul(pcap_input.ts_frac,
                               NanosPerTick(pcap_header.ts_resolution))),
                   orig_len |-> pcap_input.orig_len,
                   data |-> pcap_input.data])

\* u32::MAX seconds and 999_999 microseconds, accepted
C18_Witness ==
    /\ component = "packet"
    /\ pcap_log # <<>>
    /\ pcap_header.ts_resolution = "MicroSecond"
    /\ pcap_input.ts_sec = <<255, 255, 255, 255>>
    /\ pcap_input.ts_frac = <<63, 66, 15>>
    /\ pcap_input.incl_len = <<3>>
    /\ pcap_log[1].res.tag = "Ok"
    /\ pcap_log[1].res.val.timestamp =
         NAdd(NMul(NFromInt(1000000000), <<255, 255, 255, 255>>), NFromInt(999999000))

\* ------------------------------------------------------------------------
\* The classic file header
\* ------------------------------------------------------------------------

\* the byte order and the unit of the four magics, by their bytes in the file
MagicTable ==
    {<<<<161, 178, 195, 212>>, "Big", "MicroSecond">>,
     <<<<161, 178, 60, 77>>, "Big", "NanoSecond">>,
     <<<<212, 195, 178, 161>>, "Little", "MicroSecond">>,
     <<<<77, 60, 178, 161>>, "Little", "NanoSecond">>}

MagicEntry(bytes) == CHOOSE e \in MagicTable : e[1] = Take(bytes, 4)

\* the fields after the magic, read in byte order B
FieldsAsWritten(B, bytes) ==
    [version_major |-> read_u16(B, Drop(bytes, 4)),
     version_minor |-> read_u16(B, Drop(bytes, 6)),
     ts_correction |-> read_i32(B, Drop(bytes, 8)),
     ts_accuracy |-> NNorm(read_u32N(B, Drop(bytes, 12))),
     snaplen |-> NNorm(read_u32N(B, Drop(bytes, 16))),
     datalink |-> DataLink_from(NNorm(read_u32N(B, Drop(bytes, 20))))]

WithoutMagic(h) ==
    [version_major |-> h.version_major, version_minor |-> h.version_minor,
     ts_correction |-> h.ts_correction, ts_accuracy |-> h.ts_accuracy,
     snaplen |-> h.snaplen, datalink |-> h.datalink]

\* C19: from_slice signals IncompleteBuffer below 24 bytes, rejects with
\* InvalidField a magic that is none of a1b2c3d4, a1b23c4d, d4c3b2a1 and
\* 4d3cb2a1, and otherwise gives the header whose byte order and timestamp
\* unit are those of the magic and whose fields are the bytes 4..24 read in
\* that byte order, with the rest of the slice.
C19_HeaderParsed ==
    (component = "header" /\ pcap_log # <<>>) =>
        IF Len(pcap_input) < 24
        THEN pcap_log[1].res = Err("IncompleteBuffer")
        ELSE IF \A e \in MagicTable : e[1] # Take(pcap_input, 4)
        THEN pcap_log[1].res = Err("InvalidField")
        ELSE /\ pcap_log[1].res.tag = "Ok"
             /\ pcap_log[1].endianness = MagicEntry(pcap_input)[2]
             /\ pcap_log[1].ts_resolution = MagicEntry(pcap_input)[3]
             /\ WithoutMagic(pcap_log[1].res.val.header) =
                  FieldsAsWritten(MagicEntry(pcap_input)[2], pcap_input)
             /\ WithoutMagic(pcap_log[1].res.val.header) =
                  [WithoutMagic(pcap_header) EXCEPT
                       !.datalink = DataLink_from(pcap_header.datalink)]
             /\ pcap_log[1].res.val.rem = Drop(pcap_input, 24)

\* a little-endian nanosecond header with wide fields, followed by 3 bytes
C19_Witness ==
    /\ component = "header"
    /\ pcap_log # <<>>
    /\ Len(pcap_input) = 27
    /\ Take(pcap_input, 4) = <<77, 60, 178, 161>>
    /\ pcap_log[1].res.tag = "Ok"
    /\ pcap_log[1].endianness = "Little"
    /\ pcap_log[1].ts_resolution = "NanoSecond"
    /\ pcap_log[1].res.val.header.version_major = 513
    /\ pcap_log[1].res.val.header.ts_correction = -3600
    /\ pcap_log[1].res.val.rem = <<9, 9, 9>>

\* ------------------------------------------------------------------------
\* The end of an option list
\* ------------------------------------------------------------------------

C21_UnknownBlockKept ==
    (component = "foreign" /\ parser_out # <<>>) =>
        /\ parser_out[1].res.tag = "Ok"
        /\ parser_out[1].res.val.block.kind = "Unknown"
        /\ parser_out[1].res.val.block.type_ = parser_input.type_
        /\ parser_out[1].res.val.block.value = parser_input.body
        /\ parser_out[1].res.val.rem = parser_input.tail
        /\ parser_out[1].written =
             Ok(Framed(parser, parser_input.type_, parser_input.body))

\* the little-endian block whose code is that of an Interface Description
\* read in the other byte order, with the body of one
C21_Witness ==
    /\ component = "foreign"
    /\ parser_out # <<>>
    /\ parser = "Little"
    /\ parser_input.type_ = 16777216
    /\ parser_input.body = <<0, 1, 0, 0, 0, 0, 255, 255>>
    /\ parser_out[1].res.tag = "Ok"
    /\ parser_out[1].res.val.block.kind = "Unknown"
    /\ parser_out[1].written.tag = "Ok"
    /\ Len(parser_out[1].written.val) = 20

\* ------------------------------------------------------------------------
\* The end of the source and the size of the buffer
\* ------------------------------------------------------------------------

\* C22: parse_with answers UnexpectedEof only when the source is at its end
\* and lacks bytes of the block being read; a whole block still to come from
\* the source is returned whatever its size.
C22_EofOnlyWhenSourceExhausted ==
    component = "reader" =>
        \A i \in 1..Len(parser_out) :
            parser_out[i].res = Err("IoError(UnexpectedEof)") =>
                /\ i = Len(parser_out)
                /\ source = <<>>
                /\ MissingAtEof > 0

\* ------------------------------------------------------------------------
\* The read cursor
\* ------------------------------------------------------------------------

\* the number of bytes of the blocks returned so far: those of the first
\* blocks of the stream, one for every Ok result
RECURSIVE ReturnedBytes(_)
ReturnedBytes(n) ==
    IF n = 0 THEN 0
    ELSE IF parser_out[n].res.tag # "Ok" THEN ReturnedBytes(n - 1)
    ELSE ReturnedBytes(n - 1) + Len(Encoded("Big", parser_input[n]))

Decodable(B, blk) == Block_from_slice(B, Encoded(B, blk)).tag = "Ok"

\* the section and the interfaces after update_from_block on the typed block
TypedUpdate(section, interfaces, blk) ==
    With(update_from_block([section |-> section, interfaces |-> interfaces,
                            ts_parameters |-> <<>>], blk), LAMBDA u :
        [section |-> u.st.section, interfaces |-> u.st.interfaces])

C24_Step ==
    /\ \A block \in RawUpdateBlocks :
         StateUpdateFromRawBlock(block) =>
           IF block.kind \notin {"SectionHeader", "InterfaceDescription"}
           THEN state' = state /\ state_call'.res = Ok("unit")
           ELSE IF Decodable(state.section.endianness, block)
           THEN /\ state' = update_from_block(state, block).st
                /\ state_call'.res = update_from_block(state, block).res
           ELSE state' = state /\ state_call'.res.tag = "Err"
    /\ \A blk \in RawUpdateStream :
         (ParserNextBlock(blk) \/ ParserNextRawBlock(blk)) =>
           [section |-> parser'.section, interfaces |-> parser'.interfaces] =
             IF Decodable(parser.section.endianness, blk)
             THEN TypedUpdate(parser.section, parser.interfaces, blk)
             ELSE [section |-> parser.section, interfaces |-> parser.interfaces]

\* C24: update_from_raw_block leaves the state as it is for a raw block that
\* is neither a Section Header nor an Interface Description and otherwise
\* does what update_from_block does with the decoded block; next_raw_block
\* and next_block leave the parser with the same section and interfaces,
\* those of update_from_block on the block read.
C24_RawUpdateIsTypedUpdate == [][C24_Step]_vars

\* a second interface, with an offset, learnt from a raw block
C24_Witness ==
    /\ component = "state"
    /\ state_call.op = "update_from_raw_block"
    /\ state_call.res.tag = "Ok"
    /\ Len(state.interfaces) = 2
    /\ state.interfaces[2] = IdbResolOffset(6, <<1>>)
    /\ state.ts_parameters[2][1] = 6

\* ------------------------------------------------------------------------
\* A block buffered in part
\* ------------------------------------------------------------------------

\* the slice is a proper prefix of the bytes of the block
ProperPrefix ==
    /\ Len(parser_src) < Len(Encoded(parser, parser_input))
    /\ parser_src = Take(Encoded(parser, parser_input), Len(parser_src))

\* C25: RawBlock::from_slice on a proper prefix of the bytes of a well-framed
\* block answers IncompleteBuffer: no InvalidField and no block.  So does
\* Block::from_slice, which frames the block first.
C25_PrefixIsIncomplete ==
    (component = "framing" /\ parser_out # <<>>
       /\ parser_out[1].call \in {"RawBlock::from_slice", "Block::from_slice"}
       /\ ProperPrefix)
    => parser_out[1].res = Err("IncompleteBuffer")

\* a little-endian Section Header under a big-endian parser, all but its last
\* byte
C25_Witness ==
    /\ component = "framing"
    /\ parser = "Big"
    /\ parser_input = SectionHeaderBlock("Little")
    /\ Len(parser_src) = 27
    /\ parser_out # <<>>
    /\ parser_out[1].call = "RawBlock::from_slice"
    /\ parser_out[1].res = Err("IncompleteBuffer")

\* ------------------------------------------------------------------------
\* The reader after a parse error
\* ------------------------------------------------------------------------

IsParseError(res) == res.tag = "Err" /\ res # Err("IoError(UnexpectedEof)")

C26_Step ==
    \A c \in ChunkSizes :
        /\ (ReaderNextBlock(c) \/ ReaderNextBlockAgain(c)) =>
             (IsParseError(LastResult) =>
                /\ rb'.data \o source' = rb.data \o source
                /\ parser' = parser)
        /\ ReaderNextBlockAgain(c) =>
             (IsParseError(parser_out[Len(parser_out)].res) =>
                LastResult = parser_out[Len(parser_out)].res)

\* C26: a call of next_block that returns a parse error leaves the unread
\* bytes, the section and the interfaces as they were, and the call after it
\* returns the same error: the reader does not step over the block.
C26_ErrorLeavesReaderInPlace == [][C26_Step]_vars

\* the same InvalidField three times, on a block whose trailing length
\* differs, with an interface known
C26_Witness ==
    /\ component = "reader"
    /\ Len(parser_out) = 5
    /\ parser_out[2].res = Ok(IdbDefault)
    /\ \A i \in 3..5 : parser_out[i].res = Err("InvalidField")
    /\ Len(parser.interfaces) = 1

\* ------------------------------------------------------------------------
\* The writer after an error
\* ------------------------------------------------------------------------

C27_Step ==
    \A block \in WriterBlocks :
        WriterWriteBlock(block) =>
            (writer_log'[Len(writer_log')].res.tag = "Err" =>
                /\ writer' = writer
                /\ sink'.data = sink.data)

\* C27: a write_block that returns an error leaves the section and the
\* interfaces of the writer as they were and emits no byte to the sink.
C27_ErrorLeavesWriterUntouched == [][C27_Step]_vars

\* ------------------------------------------------------------------------
\* The interface tables
\* ------------------------------------------------------------------------

TablesAgree ==
    /\ component = "state" => Len(state.interfaces) = Len(state.ts_parameters)
    /\ component = "parser" => Len(parser.interfaces) = Len(parser.ts_resolutions)
    /\ component = "writer" => Len(writer.interfaces) = Len(writer.ts_resolutions)

C28_Step ==
    \A blk \in {b \in TableBlocks : b.kind = "InterfaceDescription" /\ IdbRejected(b)} :
        /\ (StateUpdateFromBlock(blk) \/ StateUpdateFromRawBlock(blk)) =>
              state_call'.res.tag = "Err" /\ state' = state
        /\ (ParserNextBlock(blk) \/ ParserNextRawBlock(blk)) =>
              LastResult.tag = "Err" /\ parser' = parser
        /\ WriterWriteBlock(blk) =>
              writer_log'[Len(writer_log')].res.tag = "Err" /\ writer' = writer

\* C28: the interfaces and the per-interface timestamp parameters of the
\* state, of the parser and of the writer always have the same length, and
\* an update that fails on an invalid if_tsresol leaves the section and both
\* lists as they were.
C28_TablesInStep == []TablesAgree /\ [][C28_Step]_vars

\* a rejected interface after an accepted one
C28_Witness ==
    /\ component = "state"
    /\ state_call.op = "update_from_raw_block"
    /\ state_call.res.tag = "Err"
    /\ state.interfaces = <<IdbResolOffset(6, <<1>>)>>
    /\ Len(state.ts_parameters) = 1

\* ------------------------------------------------------------------------
\* The bounds of the buffer
\* ------------------------------------------------------------------------

\* C29: after new and after every fill_buf, advance, parse_with and
\* is_empty, with reads that are short, empty or fail and with any remainder
\* taken from the slice the parser was given, 0 <= pos <= len <= capacity,
\* and neither assertion of advance_raw fails.
C29_BufferBounds ==
    component = "buffer" =>
        /\ 0 <= rb.pos
        /\ rb.pos <= rb.len
        /\ rb.len <= BUF_SIZE
        /\ Len(rb.buf) = BUF_SIZE
        /\ parser_out.res.tag # "Panic"

\* a full buffer read in two refills, and a remainder inside it
C29_Witness ==
    /\ component = "buffer"
    /\ parser_out.op = "parse_with"
    /\ parser_out.res.tag = "Ok"
    /\ rb.pos = 1
    /\ rb.len = BUF_SIZE - 1
    /\ source = BUF_SIZE

\* ------------------------------------------------------------------------
\* decode_timestamp past 64 bits of nanoseconds
\* ------------------------------------------------------------------------

\* the tick length and offset stored for the interface of the last call
CallResolution == state.ts_parameters[state_call.interface_id + 1][1]
CallOffset == state.ts_parameters[state_call.interface_id + 1][2]
ExactDuration == NAdd(NMul(state_call.ts_raw, NFromInt(to_nano_secs(CallResolution))),
                      CallOffset)

\* C30: for every 64-bit raw tick value and every resolution with a tick
\* length, decode_timestamp returns raw_ticks * tick_length_in_nanoseconds +
\* ts_offset exactly, with no wrap-around at 2^64 ns and no panic (whenever a
\* Duration can hold that value).
C30_DecodeExact ==
    (/\ component = "state"
     /\ state_call.op = "decode_timestamp"
     /\ state_call.interface_id < Len(state.ts_parameters)
     /\ to_nano_secs(CallResolution) >= 0
     /\ NLess(ExactDuration, DurationLimit))
    => /\ state_call.res.tag = "Ok"
       /\ NNorm(state_call.res.val) = NNorm(ExactDuration)

=============================================================================
